---- MODULE Spec2Model ----
(***************************************************************************)
(* A model of the tennis-reservation claim engine: the message classifier, *)
(* the unlock poll, the midnight wait, the parallel dispatch and the two   *)
(* orchestrators (browser path and API path).                              *)
(*                                                                         *)
(* Text is modelled at character level: a string is a sequence of          *)
(* one-character atoms.  A precomposed accented letter is written as the   *)
(* atom "a'" (a with acute), "A'" its capital, and the combining acute     *)
(* accent U+0301 as the atom "U+0301".                                     *)
(***************************************************************************)
EXTENDS Integers, Sequences, FiniteSets, TLC

VARIABLES
  written,      \* classifier: the phrases and the writing style of the raw response
  message,      \* classifier: the raw input handed to classifyMessage
  classified    \* classifier: the outcome of the call, or NotCalled

clsVars == <<written, message, classified>>

VARIABLES
  courts,       \* parallel: the attempts handed to executeInParallel, in input order
  promises,     \* parallel: per attempt "created", "pending", "fulfilled" or "rejected"
  settled,      \* parallel: per attempt what its own function returned or threw
  wrapped,      \* parallel: per attempt the value of executeInParallel's wrapper promise
  allSettled,   \* parallel: per attempt the entry of Promise.allSettled (main)
  finishOrder,  \* parallel: the attempts in the order in which they finished
  parPc,        \* parallel: "mapping", "awaiting" or "returned"
  parReturned,  \* parallel: the array executeInParallel returned
  parResults,   \* parallel: main's results array after processing allSettled
  parErrors     \* parallel: main's errors array after processing allSettled

parVars == <<courts, promises, settled, wrapped, allSettled, finishOrder, parPc,
             parReturned, parResults, parErrors>>

VARIABLES
  pollPc,         \* poll: "idle", "iterate", "lookup", "sleep", "returned", "timeout", "failed"
  pollNow,        \* poll: Date.now()
  pollIntervalMs, \* poll: options.pollIntervalMs
  maxWaitMs,      \* poll: options.maxWaitMs
  startTime,      \* poll: const startTime
  elapsed,        \* poll: const elapsed of the current iteration
  prevElapsed,    \* poll: elapsed of the iteration before it (-1 when none)
  attemptCount,   \* poll: let attemptCount
  lookupSince,    \* poll: when the current iteration began its lookups
  wakeAt,         \* poll: when the pending setTimeout is due
  unlocked,       \* poll: the remote calendar shows the clickable day
  unlockedAt,     \* poll: elapsed time at which it appeared (-1 while absent)
  ticks,          \* poll: the elapsed values passed to onTick
  pollResult      \* poll: the value returned (-1 when none)

pollVars == <<pollPc, pollNow, pollIntervalMs, maxWaitMs, startTime, elapsed, prevElapsed,
              attemptCount, lookupSince, wakeAt, unlocked, unlockedAt, ticks, pollResult>>

VARIABLES
  waitPath,       \* wait: "api" (scripts/reserve.ts) or "browser" (the orchestrator)
  waitTest,       \* wait: ARGS.test
  waitPc,         \* wait: "idle", "called", "sleep", "returned", "skipped" or "late"
  waitNow,        \* wait: the clock, in ticks since a Costa Rica midnight
  waitWakeAt,     \* wait: when the pending setTimeout is due
  waitReturnedAt  \* wait: the clock when the wait returned (-1 when it has not)

waitVars == <<waitPath, waitTest, waitPc, waitNow, waitWakeAt, waitReturnedAt>>

VARIABLES
  runPath,      \* run: "browser" (the orchestrator) or "api" (scripts/reserve.ts)
  ARGS,         \* run: the command line and environment switches
  env,          \* run: the allow flag: ALLOW_BOOKING=1 and the sentinel file
  mainPc,       \* run: where main is
  now,          \* run: the Costa Rica clock, in seconds since a midnight
  startedAt,    \* run: the clock when main started
  loginOk,      \* run: "none", "ok" or "failed" (the initial login)
  t0Time,       \* run: the clock when the midnight wait returned (-1 when none)
  today,        \* run: the day main read as today (-1 when none)
  todayReadAt,  \* run: the clock when it was read (-1 when none)
  targetDate,   \* run: per court the target day (-1 when none)
  attempted,    \* run: the courts main set out to reserve
  attempts,     \* run: per court where its attempt is and how it ended
  results,      \* run: main's results array
  errors,       \* run: main's errors array
  report,       \* run: the e-mail main sent
  exitCode,     \* run: the exit status (-1 while running)
  submissions,  \* run: the submissions issued to the remote system
  starts,       \* run: per court how many attempts were started for it
  trace,        \* run: per court the steps its attempt has carried out
  telemetry,    \* run: per court the telemetry object of its attempt
  network,      \* run: whether the run has made a remote request yet
  serverTimeResult, \* run: the result of the server time check while in scope
  sessionState, \* run: the session state of the engine: mode and fallback events
  warned,       \* run: whether main logged SESSION FAILURE DETECTED
  payloads,     \* run: per court the payload the API answered with, if any
  logins,       \* run: the logins performed, each with the point of the run
  pageUse       \* run: for each page, the courts whose attempt has operated on it

runVars == <<serverTimeResult, sessionState, warned, payloads, logins, pageUse, runPath, ARGS, env, mainPc, now, startedAt, loginOk, t0Time, today,
             todayReadAt, targetDate, attempted, attempts, results, errors, report,
             exitCode, submissions, starts, trace, telemetry, network,
             serverTimeResult, sessionState, warned, payloads, logins>>

VARIABLES
  history       \* repeat: the calls of classifyMessage so far, each with its outcome

repVars == <<history>>

VARIABLES
  resolved      \* schedule: the calls of resolveScheduleId so far, each with its result

schVars == <<resolved>>

VARIABLES
  form,         \* select: the options of the form's schedule field, in order
  requested,    \* select: the time window asked for, by its place in the day
  selection,    \* select: the result of selectTimeSlot and the option left selected
  formCourtId,  \* select: the court the attempt is for ("5" or "7")
  formDayName   \* select: the day of the week of the attempt's target date

selVars == <<form, requested, selection, formCourtId, formDayName>>

VARIABLES
  extracted,    \* detect: the text taken from the result frame
  verdicts      \* detect: what detectError and classifyMessage made of it

detVars == <<extracted, verdicts>>

VARIABLES
  prePc,        \* pre-login: where main is (main, loop, sleep, login)
  preClock,     \* pre-login: the time, in ticks since the midnight before the unlock instant's day
  loginLeadMs,  \* pre-login: the configured lead time, in seconds
  preWake,      \* pre-login: the tick at which the pending timer is due
  preStart,     \* pre-login: the tick at which main reached the pre-login timing
  loginStart    \* pre-login: the tick at which authentication started, -1 before

preVars == <<prePc, preClock, loginLeadMs, preWake, preStart, loginStart>>

VARIABLES
  hintInput,    \* days hint: how the not-yet-available text is made up
  hintResult    \* days hint: what classifyMessage returned for it

hintVars == <<hintInput, hintResult>>

VARIABLES
  tracked,      \* session state: the SessionState object under the calls
  givenMode,  \* session state: the mode createSessionState was given
  recorded      \* session state: the (court, reason) of the recordFallback calls so far

sessVars == <<tracked, givenMode, recorded>>

vars == <<clsVars, parVars, pollVars, waitVars, runVars, repVars, schVars, selVars, detVars, preVars, hintVars, sessVars>>

\* ------------------------------------------------------------------------
\* Characters
\* ------------------------------------------------------------------------

LowerOf ==
  ("A" :> "a") @@ ("B" :> "b") @@ ("C" :> "c") @@ ("D" :> "d") @@ ("E" :> "e") @@
  ("F" :> "f") @@ ("G" :> "g") @@ ("H" :> "h") @@ ("I" :> "i") @@ ("J" :> "j") @@
  ("K" :> "k") @@ ("L" :> "l") @@ ("M" :> "m") @@ ("N" :> "n") @@ ("O" :> "o") @@
  ("P" :> "p") @@ ("Q" :> "q") @@ ("R" :> "r") @@ ("S" :> "s") @@ ("T" :> "t") @@
  ("U" :> "u") @@ ("V" :> "v") @@ ("W" :> "w") @@ ("X" :> "x") @@ ("Y" :> "y") @@
  ("Z" :> "z") @@ ("A'" :> "a'") @@ ("E'" :> "e'") @@ ("I'" :> "i'") @@
  ("O'" :> "o'") @@ ("U'" :> "u'")

\* Canonical decomposition of the precomposed letters (String.normalize("NFD")).
DecompositionOf ==
  ("a'" :> <<"a", "U+0301">>) @@ ("e'" :> <<"e", "U+0301">>) @@
  ("i'" :> <<"i", "U+0301">>) @@ ("o'" :> <<"o", "U+0301">>) @@
  ("u'" :> <<"u", "U+0301">>) @@ ("A'" :> <<"A", "U+0301">>) @@
  ("E'" :> <<"E", "U+0301">>) @@ ("I'" :> <<"I", "U+0301">>) @@
  ("O'" :> <<"O", "U+0301">>) @@ ("U'" :> <<"U", "U+0301">>)

\* The characters of the range U+0300..U+036F that occur in the model.
CombiningMarks == {"U+0301"}

\* The characters the regular-expression class \s matches.
WhiteSpace == {" ", "\t", "\n", "\r"}

\* The characters the regular-expression "." does not match.
LineTerminators == {"\n", "\r"}

Digits == {"0", "1", "2", "3", "4", "5", "6", "7", "8", "9"}

\* ------------------------------------------------------------------------
\* String primitives used by the classifier
\* ------------------------------------------------------------------------

toLowerCase(s) ==
  [i \in 1..Len(s) |-> IF s[i] \in DOMAIN LowerOf THEN LowerOf[s[i]] ELSE s[i]]

RECURSIVE normalizeNFD(_)
normalizeNFD(s) ==
  IF s = <<>> THEN <<>>
  ELSE (IF Head(s) \in DOMAIN DecompositionOf
          THEN DecompositionOf[Head(s)] ELSE <<Head(s)>>) \o normalizeNFD(Tail(s))

\* .replace(/[U+0300-U+036F]/g, "")
removeDiacritics(s) == SelectSeq(s, LAMBDA c : c \notin CombiningMarks)

\* .replace(/\s+/g, " ")
RECURSIVE collapseWhitespace(_)
collapseWhitespace(s) ==
  IF s = <<>> THEN <<>>
  ELSE IF Head(s) \in WhiteSpace
    THEN IF Len(s) > 1 /\ s[2] \in WhiteSpace
           THEN collapseWhitespace(Tail(s))
           ELSE <<" ">> \o collapseWhitespace(Tail(s))
    ELSE <<Head(s)>> \o collapseWhitespace(Tail(s))

\* Mutant: the normalisation without .toLowerCase().
normalizeMessage_NoLowerCase(s) ==
  collapseWhitespace(removeDiacritics(normalizeNFD(s)))

\* message.toLowerCase().normalize("NFD").replace(diacritics).replace(/\s+/g," ")
normalizeMessage(s) ==
  collapseWhitespace(removeDiacritics(normalizeNFD(toLowerCase(s))))

\* ------------------------------------------------------------------------
\* Regular expressions: a pattern is a sequence of items
\*   [t |-> "lit", s |-> chars]    the literal characters
\*   [t |-> "ws+"] / [t |-> "ws*"] \s+ and \s*
\*   [t |-> "any*"]                .*
\*   [t |-> "alt", a |-> <<p1, ..., pn>>]   (p1|...|pn)
\*   [t |-> "opt", s |-> chars]    the literal characters, optional
\* ------------------------------------------------------------------------

Lit(chars) == <<[t |-> "lit", s |-> chars]>>
WsPlus == <<[t |-> "ws+"]>>
WsStar == <<[t |-> "ws*"]>>
AnyStar == <<[t |-> "any*"]>>
Alt(ps) == <<[t |-> "alt", a |-> ps]>>
Opt(chars) == <<[t |-> "opt", s |-> chars]>>

\* Whether pattern p matches a prefix of s[i..].
RECURSIVE MatchAt(_, _, _)
MatchAt(s, i, p) ==
  IF p = <<>> THEN TRUE
  ELSE LET h == Head(p)
           r == Tail(p)
       IN CASE h.t = "lit" ->
                 /\ i + Len(h.s) - 1 <= Len(s)
                 /\ s[i] = h.s[1]
                 /\ SubSeq(s, i, i + Len(h.s) - 1) = h.s
                 /\ MatchAt(s, i + Len(h.s), r)
            [] h.t = "opt" ->
                 \/ /\ i + Len(h.s) - 1 <= Len(s)
                    /\ SubSeq(s, i, i + Len(h.s) - 1) = h.s
                    /\ MatchAt(s, i + Len(h.s), r)
                 \/ MatchAt(s, i, r)
            [] h.t = "ws+" ->
                 /\ i <= Len(s)
                 /\ s[i] \in WhiteSpace
                 /\ (MatchAt(s, i + 1, p) \/ MatchAt(s, i + 1, r))
            [] h.t = "ws*" ->
                 \/ (i <= Len(s) /\ s[i] \in WhiteSpace /\ MatchAt(s, i + 1, p))
                 \/ MatchAt(s, i, r)
            [] h.t = "any*" ->
                 \/ (i <= Len(s) /\ s[i] \notin LineTerminators /\ MatchAt(s, i + 1, p))
                 \/ MatchAt(s, i, r)
            [] h.t = "alt" ->
                 \E k \in 1..Len(h.a) : MatchAt(s, i, h.a[k] \o r)

\* RegExp.prototype.test: the pattern matches somewhere in s.
Test(p, s) == \E i \in 1..(Len(s) + 1) : MatchAt(s, i, p)

\* /se\s+ha\s+realizado.*exito/
SuccessPattern ==
  Lit(<<"s","e">>) \o WsPlus \o Lit(<<"h","a">>) \o WsPlus \o
  Lit(<<"r","e","a","l","i","z","a","d","o">>) \o AnyStar \o
  Lit(<<"e","x","i","t","o">>)

\* /aun\s+no\s+esta\s+disponible/
NotYetPatternA ==
  Lit(<<"a","u","n">>) \o WsPlus \o Lit(<<"n","o">>) \o WsPlus \o
  Lit(<<"e","s","t","a">>) \o WsPlus \o
  Lit(<<"d","i","s","p","o","n","i","b","l","e">>)

\* /no\s+(esta|se\s+encuentra)\s+(disponible|habilitada)/
NotYetPatternB ==
  Lit(<<"n","o">>) \o WsPlus \o
  Alt(<<Lit(<<"e","s","t","a">>),
        Lit(<<"s","e">>) \o WsPlus \o Lit(<<"e","n","c","u","e","n","t","r","a">>)>>) \o
  WsPlus \o
  Alt(<<Lit(<<"d","i","s","p","o","n","i","b","l","e">>),
        Lit(<<"h","a","b","i","l","i","t","a","d","a">>)>>)

\* /(reservacion|reservaciones)/
ReservationWordPattern ==
  Alt(<<Lit(<<"r","e","s","e","r","v","a","c","i","o","n">>),
        Lit(<<"r","e","s","e","r","v","a","c","i","o","n","e","s">>)>>)

\* The part of /(\d+)\s+dias?\s+(antes|previo|previos)/ after the group (\d+).
DaysTailPattern ==
  WsPlus \o Lit(<<"d","i","a">>) \o Opt(<<"s">>) \o WsPlus \o
  Alt(<<Lit(<<"a","n","t","e","s">>), Lit(<<"p","r","e","v","i","o">>),
        Lit(<<"p","r","e","v","i","o","s">>)>>)

\* /(ya\s+existen\s+otras\s+reservaciones|excede\s+la\s+cantidad\s+maxima)/
SlotTakenPattern ==
  Alt(<<Lit(<<"y","a">>) \o WsPlus \o Lit(<<"e","x","i","s","t","e","n">>) \o WsPlus \o
          Lit(<<"o","t","r","a","s">>) \o WsPlus \o
          Lit(<<"r","e","s","e","r","v","a","c","i","o","n","e","s">>),
        Lit(<<"e","x","c","e","d","e">>) \o WsPlus \o Lit(<<"l","a">>) \o WsPlus \o
          Lit(<<"c","a","n","t","i","d","a","d">>) \o WsPlus \o
          Lit(<<"m","a","x","i","m","a">>)>>)

\* /(ya\s*ha\s*sobrepasado.*limite|sobrepasado.*limite\s+permitido)/
LimitPattern ==
  Alt(<<Lit(<<"y","a">>) \o WsStar \o Lit(<<"h","a">>) \o WsStar \o
          Lit(<<"s","o","b","r","e","p","a","s","a","d","o">>) \o AnyStar \o
          Lit(<<"l","i","m","i","t","e">>),
        Lit(<<"s","o","b","r","e","p","a","s","a","d","o">>) \o AnyStar \o
          Lit(<<"l","i","m","i","t","e">>) \o WsPlus \o
          Lit(<<"p","e","r","m","i","t","i","d","o">>)>>)

\* ------------------------------------------------------------------------
\* JavaScript values of the classifier's interface
\* ------------------------------------------------------------------------

JsString(chars) == [kind |-> "string", chars |-> chars]
JsUndefined == [kind |-> "undefined", chars |-> <<>>]
JsNull == [kind |-> "null", chars |-> <<>>]

\* !message
Falsy(v) == v.kind \in {"undefined", "null"} \/ v.chars = <<>>

\* Mutant: the group matches one digit only, /(\d)\s+dias?\s+(antes|previo|previos)/.
DaysMatch_OneDigit(msg) ==
  LET Hits == {i \in 1..Len(msg) : msg[i] \in Digits /\ MatchAt(msg, i + 1, DaysTailPattern)}
  IN IF Hits = {} THEN JsUndefined
     ELSE LET first == CHOOSE i \in Hits : \A h \in Hits : i <= h
          IN JsString(SubSeq(msg, first, first))

\* msg.match(/(\d+)\s+dias?\s+(antes|previo|previos)/)?.[1]: the leftmost match,
\* its group (\d+) greedy.
DaysMatch(msg) ==
  LET DigitAt == {i \in 1..Len(msg) : msg[i] \in Digits}
      IsRun(i, j) == \A k \in i..j : k \in DigitAt
      Hits == {ij \in DigitAt \X DigitAt :
                 /\ ij[1] <= ij[2]
                 /\ IsRun(ij[1], ij[2])
                 /\ MatchAt(msg, ij[2] + 1, DaysTailPattern)}
  IN IF Hits = {} THEN JsUndefined
     ELSE LET first == CHOOSE i \in {h[1] : h \in Hits} :
                         \A h \in Hits : i <= h[1]
              last == CHOOSE j \in {h[2] : h \in {g \in Hits : g[1] = first}} :
                         \A h \in {g \in Hits : g[1] = first} : h[2] <= j
          IN JsString(SubSeq(msg, first, last))

Outcome(type, friendly, raw, days) ==
  [raised |-> "", type |-> type, friendlyMessage |-> friendly,
   rawMessage |-> raw, days |-> days]

\* What a call returns that raised instead of returning an outcome.
Raised(error) ==
  [raised |-> error, type |-> "", friendlyMessage |-> <<>>,
   rawMessage |-> <<>>, days |-> JsUndefined]

IsNotYetAvailable(msg) ==
  /\ Test(NotYetPatternA, msg) \/ Test(NotYetPatternB, msg)
  /\ Test(ReservationWordPattern, msg)

\* Mutant: the slot-taken rule tried before the not-yet-available rule.
classifyText_SlotTakenFirst(chars) ==
  LET msg == normalizeMessage(chars) IN
    IF Test(SuccessPattern, msg)
      THEN Outcome("SUCCESS", <<"Reservation successful">>, chars, JsUndefined)
    ELSE IF Test(SlotTakenPattern, msg)
      THEN Outcome("SLOT_TAKEN",
                   <<"Time slot already taken - someone else reserved it first">>,
                   chars, JsUndefined)
    ELSE IF IsNotYetAvailable(msg)
      THEN LET d == DaysMatch(msg) IN
           Outcome("NOT_YET_AVAILABLE",
                   <<"Date not available yet - reservations open ">> \o
                     (IF d.kind = "string" THEN d.chars ELSE <<"?">>) \o
                     <<" days before">>,
                   chars, d)
    ELSE IF Test(LimitPattern, msg)
      THEN Outcome("RESERVATION_LIMIT",
                   <<"Reservation limit exceeded - you have already used your allowed reservations">>,
                   chars, JsUndefined)
    ELSE Outcome("UNKNOWN", <<"Could not classify response: ">> \o chars, chars,
                 JsUndefined)

\* Mutant: the outcome carries the text as it was normalised for matching.
classifyText_NormalisedRaw(chars) ==
  [classifyText_SlotTakenFirst(chars) EXCEPT !.rawMessage = normalizeMessage(chars)]

\* classifyMessage after its guard: the rules, in the order of the code.
classifyText(chars) ==
  LET msg == normalizeMessage(chars)
      m == JsString(chars) IN
    IF Test(SuccessPattern, msg)
      THEN Outcome("SUCCESS", <<"Reservation successful">>, m.chars, JsUndefined)
    ELSE IF IsNotYetAvailable(msg)
      THEN LET d == DaysMatch(msg) IN
           Outcome("NOT_YET_AVAILABLE",
                   <<"Date not available yet - reservations open ">> \o
                     (IF d.kind = "string" THEN d.chars ELSE <<"?">>) \o
                     <<" days before">>,
                   m.chars, d)
    ELSE IF Test(SlotTakenPattern, msg)
      THEN Outcome("SLOT_TAKEN",
                   <<"Time slot already taken - someone else reserved it first">>,
                   m.chars, JsUndefined)
    ELSE IF Test(LimitPattern, msg)
      THEN Outcome("RESERVATION_LIMIT",
                   <<"Reservation limit exceeded - you have already used your allowed reservations">>,
                   m.chars, JsUndefined)
    ELSE Outcome("UNKNOWN", <<"Could not classify response: ">> \o m.chars, m.chars,
                 JsUndefined)

\* Mutant: no guard for a missing or empty message; .toLowerCase() of a value
\* that is no string raises a TypeError.
classifyMessage_NoGuard(m) ==
  IF m.kind # "string" THEN Raised("TypeError") ELSE classifyText(m.chars)

classifyMessage(m) ==
  IF Falsy(m)
    THEN Outcome("UNKNOWN", <<"No response content found">>, <<>>, JsUndefined)
    ELSE classifyText(m.chars)

\* ------------------------------------------------------------------------
\* The raw responses the classifier is run on: up to MaxFragments phrases of
\* the remote system's messages, joined by blanks, in each writing style
\* (capitals, decomposed accents, wider white space).
\* ------------------------------------------------------------------------

MaxFragments == 2

Fragments == <<
  <<"s","e"," ","h","a"," ","r","e","a","l","i","z","a","d","o"," ","c","o","n"," ","e'","x","i","t","o">>,
  <<"a","u'","n"," ","n","o"," ","e","s","t","a'"," ","d","i","s","p","o","n","i","b","l","e">>,
  <<"n","o"," ","s","e"," ","e","n","c","u","e","n","t","r","a"," ","h","a","b","i","l","i","t","a","d","a">>,
  <<"p","a","r","a"," ","r","e","s","e","r","v","a","c","i","o'","n">>,
  <<"8"," ","d","i'","a","s"," ","a","n","t","e","s">>,
  <<"y","a"," ","e","x","i","s","t","e","n"," ","o","t","r","a","s"," ","r","e","s","e","r","v","a","c","i","o","n","e","s">>,
  <<"e","x","c","e","d","e"," ","l","a"," ","c","a","n","t","i","d","a","d"," ","m","a'","x","i","m","a">>,
  <<"y","a"," ","h","a'"," ","s","o","b","r","e","p","a","s","a","d","o"," ","e","l"," ","l","i","m","i","t","e">>
>>

WhiteSpaceRuns == {<<" ">>, <<" ", " ">>, <<"\n">>, <<"\t", " ">>}

Styles == [upper : BOOLEAN, decomposed : BOOLEAN, ws : WhiteSpaceRuns]

UpperOf == [c \in {LowerOf[u] : u \in DOMAIN LowerOf} |->
              CHOOSE u \in DOMAIN LowerOf : LowerOf[u] = c]

RECURSIVE JoinFragments(_)
JoinFragments(ids) ==
  IF ids = <<>> THEN <<>>
  ELSE IF Len(ids) = 1 THEN Fragments[ids[1]]
  ELSE Fragments[ids[1]] \o <<" ">> \o JoinFragments(Tail(ids))

RECURSIVE WidenBlanks(_, _)
WidenBlanks(s, run) ==
  IF s = <<>> THEN <<>>
  ELSE (IF Head(s) = " " THEN run ELSE <<Head(s)>>) \o WidenBlanks(Tail(s), run)

Render(ids, style) ==
  LET plain == JoinFragments(ids)
      cased == IF style.upper
                 THEN [i \in 1..Len(plain) |->
                         IF plain[i] \in DOMAIN UpperOf THEN UpperOf[plain[i]] ELSE plain[i]]
                 ELSE plain
      accented == IF style.decomposed THEN normalizeNFD(cased) ELSE cased
  IN WidenBlanks(accented, style.ws)

FragmentSeqs == UNION {[1..n -> 1..Len(Fragments)] : n \in 0..MaxFragments}

PlainStyle == [upper |-> FALSE, decomposed |-> FALSE, ws |-> <<" ">>]

\* How a raw response is written: a missing message (undefined, null), or
\* phrases in a style.
Writings ==
  [kind : {"undefined", "null"}, ids : {<<>>}, style : {PlainStyle}] \cup
  [kind : {"string"}, ids : FragmentSeqs, style : Styles]

RawResponse(w) ==
  CASE w.kind = "undefined" -> JsUndefined
    [] w.kind = "null" -> JsNull
    [] OTHER -> JsString(Render(w.ids, w.style))

\* ------------------------------------------------------------------------
\* The classifier run on one raw response
\* ------------------------------------------------------------------------

NotCalled == Raised("not called")

ClsIdle ==
  /\ written = [kind |-> "undefined", ids |-> <<>>, style |-> PlainStyle]
  /\ message = JsUndefined
  /\ classified = NotCalled

ClsInit ==
  /\ written \in Writings
  /\ message = RawResponse(written)
  /\ classified = NotCalled

\* const classified = classifyMessage(result.message)
Classify ==
  /\ classified = NotCalled
  /\ classified' = classifyMessage(message)
  /\ UNCHANGED <<written, message>>

ClsNext == Classify /\ UNCHANGED <<parVars, pollVars, waitVars, runVars, repVars, schVars, selVars, detVars, preVars, hintVars, sessVars>>

\* ------------------------------------------------------------------------
\* Claims about the classifier (specification SpecClassify)
\* ------------------------------------------------------------------------

Returned == classified # NotCalled

\* The phrases of Fragments, by what they say.
SuccessPhrases == {1}
NotOpenPhrases == {2, 3}
ReservationWordPhrases == {4, 6}
SlotTakenPhrases == {6, 7}
LimitPhrases == {8}

Says(phrases) == \E i \in 1..Len(written.ids) : written.ids[i] \in phrases

SaysNotYet == Says(NotOpenPhrases) /\ Says(ReservationWordPhrases)

Statuses == {"SUCCESS", "SLOT_TAKEN", "RESERVATION_LIMIT", "NOT_YET_AVAILABLE", "UNKNOWN"}

C9_ClaimedOrder ==
  Returned =>
    classified.type =
      IF Says(SuccessPhrases) THEN "SUCCESS"
      ELSE IF Says(SlotTakenPhrases) THEN "SLOT_TAKEN"
      ELSE IF Says(LimitPhrases) THEN "RESERVATION_LIMIT"
      ELSE IF SaysNotYet THEN "NOT_YET_AVAILABLE"
      ELSE "UNKNOWN"

\* C9 amended: the status is that of the earliest matching rule in the order
\* SUCCESS, NOT_YET_AVAILABLE, SLOT_TAKEN, RESERVATION_LIMIT, and UNKNOWN only
\* when no rule matches; a response saying both the slot-taken and the
\* not-yet-available phrase is classified NOT_YET_AVAILABLE.
C9_CodeOrder ==
  Returned =>
    classified.type =
      IF Says(SuccessPhrases) THEN "SUCCESS"
      ELSE IF SaysNotYet THEN "NOT_YET_AVAILABLE"
      ELSE IF Says(SlotTakenPhrases) THEN "SLOT_TAKEN"
      ELSE IF Says(LimitPhrases) THEN "RESERVATION_LIMIT"
      ELSE "UNKNOWN"

C9_Witness ==
  /\ Returned
  /\ ~Says(SuccessPhrases) /\ SaysNotYet /\ Says(SlotTakenPhrases)
  /\ classified.type = "NOT_YET_AVAILABLE"

\* C10: classifyMessage returns an outcome for every input and never raises; a
\* missing or empty message yields UNKNOWN with the friendly message
\* "No response content found" and an empty raw message.
C10_Total ==
  Returned =>
    /\ classified.raised = ""
    /\ classified.type \in Statuses
    /\ Falsy(message) =>
         /\ classified.type = "UNKNOWN"
         /\ classified.friendlyMessage = <<"No response content found">>
         /\ classified.rawMessage = <<>>

C10_Witness ==
  /\ Returned
  /\ message.kind = "undefined"
  /\ classified.type = "UNKNOWN"

\* C35: for every non-empty input and every resulting status, UNKNOWN included,
\* the raw message of the outcome is the input text itself, character for
\* character, not the lower-cased, accent-stripped, blank-collapsed text the
\* rules are matched on.
C35_RawTextPreserved ==
  (Returned /\ ~Falsy(message)) =>
    /\ classified.raised = ""
    /\ classified.rawMessage = message.chars

\* A text in capitals, with decomposed accents and wide white space, that no
\* rule matches: UNKNOWN, with the text as it was given.
C35_UnknownKeepsItsText ==
  /\ Returned
  /\ classified.type = "UNKNOWN"
  /\ written.ids # <<>>
  /\ written.style.upper /\ written.style.decomposed /\ written.style.ws = <<"\t", " ">>
  /\ message.chars # normalizeMessage(message.chars)
  /\ classified.rawMessage = message.chars

\* ------------------------------------------------------------------------
\* Parallel execution: executeInParallel (engine.ts) and the shared-mode
\* dispatch of main (Promise.allSettled and the processing of its entries)
\* ------------------------------------------------------------------------

MaxAttempts == 3

CourtName(k) == <<"Court", k>>

\* What attempt k's own function does: it returns its value or throws its error.
OwnValue(k, ok) == [success |-> ok, court |-> CourtName(k), error |-> <<>>, courtName |-> <<>>]
OwnError(k) == <<"attempt failed", k>>

NoRecord == [success |-> FALSE, court |-> <<>>, error |-> <<>>, courtName |-> <<>>]

\* catch (error) { return { success: false, error: error.message, courtName } }
FailureRecord(cs, k, error) ==
  [success |-> FALSE, court |-> <<>>, error |-> error, courtName |-> cs[k].courtName]

\* Mutant: the values in the order in which the promises settled.
PromiseAllValues_FinishOrder(values, order) == [i \in 1..Len(order) |-> values[order[i]]]

\* Promise.all(promises): the values of the promises in the order of the array.
PromiseAllValues(values, order) == values

ParIdle ==
  /\ courts = <<>>
  /\ promises = <<>>
  /\ settled = <<>>
  /\ wrapped = <<>>
  /\ allSettled = <<>>
  /\ finishOrder = <<>>
  /\ parPc = "idle"
  /\ parReturned = <<>>
  /\ parResults = <<>>
  /\ parErrors = <<>>

ParInit ==
  /\ \E n \in 1..MaxAttempts :
       /\ \E does \in [1..n -> [throws : BOOLEAN, ok : BOOLEAN]] :
            courts = [k \in 1..n |-> [courtName |-> CourtName(k),
                                      throws |-> does[k].throws, ok |-> does[k].ok]]
       /\ promises = [k \in 1..n |-> "created"]
       /\ settled = [k \in 1..n |-> NoRecord]
       /\ wrapped = [k \in 1..n |-> NoRecord]
       /\ allSettled = [k \in 1..n |-> [status |-> "pending", value |-> NoRecord, reason |-> <<>>]]
  /\ \A k \in DOMAIN courts : courts[k].throws => ~courts[k].ok
  /\ finishOrder = <<>>
  /\ parPc = "mapping"
  /\ parReturned = <<>>
  /\ parResults = <<>>
  /\ parErrors = <<>>

\* courts.map(async (...) => ...): the attempts are started in input order.
StartAttempt(k) ==
  /\ parPc = "mapping"
  /\ promises[k] = "created"
  /\ \A j \in 1..(k - 1) : promises[j] # "created"
  /\ promises' = [promises EXCEPT ![k] = "pending"]
  /\ parPc' = IF k = Len(courts) THEN "awaiting" ELSE "mapping"
  /\ UNCHANGED <<courts, settled, wrapped, allSettled, finishOrder, parReturned,
                 parResults, parErrors>>

\* Attempt k's own function ends: it returns its value or throws.  The wrapper
\* of executeInParallel turns a throw into a failure record; allSettled keeps it
\* as a rejection.
FinishAttempt(k) ==
  /\ promises[k] = "pending"
  /\ LET cs == courts IN
     IF courts[k].throws
       THEN /\ promises' = [promises EXCEPT ![k] = "rejected"]
            /\ settled' = [settled EXCEPT ![k] = NoRecord]
            /\ wrapped' = [wrapped EXCEPT ![k] = FailureRecord(cs, k, OwnError(k))]
            /\ allSettled' = [allSettled EXCEPT ![k] =
                 [status |-> "rejected", value |-> NoRecord, reason |-> OwnError(k)]]
       ELSE /\ promises' = [promises EXCEPT ![k] = "fulfilled"]
            /\ settled' = [settled EXCEPT ![k] = OwnValue(k, courts[k].ok)]
            /\ wrapped' = [wrapped EXCEPT ![k] = OwnValue(k, courts[k].ok)]
            /\ allSettled' = [allSettled EXCEPT ![k] =
                 [status |-> "fulfilled", value |-> OwnValue(k, courts[k].ok), reason |-> <<>>]]
  /\ finishOrder' = Append(finishOrder, k)
  /\ UNCHANGED <<courts, parPc, parReturned, parResults, parErrors>>

\* parallelResults.forEach((result, index) => ...): fulfilled entries are pushed
\* to results, rejected ones to errors, in index order.
RECURSIVE ProcessSettled(_, _, _)
ProcessSettled(entries, k, acc) ==
  IF k > Len(entries) THEN acc
  ELSE ProcessSettled(entries, k + 1,
         IF entries[k].status = "fulfilled"
           THEN [acc EXCEPT !.results = Append(@, entries[k].value)]
           ELSE [acc EXCEPT !.errors =
                   Append(@, [court |-> CourtName(k), error |-> entries[k].reason])])

\* return await Promise.all(promises); and main's processing of allSettled.
ReturnAll ==
  /\ parPc = "awaiting"
  /\ \A k \in DOMAIN promises : promises[k] \in {"fulfilled", "rejected"}
  /\ parReturned' = PromiseAllValues(wrapped, finishOrder)
  /\ LET acc == ProcessSettled(allSettled, 1, [results |-> <<>>, errors |-> <<>>]) IN
       /\ parResults' = acc.results
       /\ parErrors' = acc.errors
  /\ parPc' = "returned"
  /\ UNCHANGED <<courts, promises, settled, wrapped, allSettled, finishOrder>>

ParNext ==
  /\ \/ \E k \in DOMAIN courts : StartAttempt(k)
     \/ \E k \in DOMAIN courts : FinishAttempt(k)
     \/ ReturnAll
  /\ UNCHANGED <<clsVars, pollVars, waitVars, runVars, repVars, schVars, selVars, detVars, preVars, hintVars, sessVars>>

\* ---- Claims about parallel execution ----

ParDone == parPc = "returned"

Threw(k) == courts[k].throws

\* C1: once every attempt has settled, executeInParallel has returned exactly
\* one record per attempt, in input order: attempt k's own value when it
\* returned, and {success: false, error, courtName} with k's court name and its
\* error message when it threw.  The shared-mode dispatch likewise holds one
\* allSettled entry per attempt in input order, every fulfilled value is in
\* results and every rejection is in errors under its own court; a failing
\* attempt removes no other attempt's outcome.
C1_OneRecordPerAttempt ==
  ParDone =>
    /\ Len(parReturned) = Len(courts)
    /\ Len(allSettled) = Len(courts)
    /\ \A k \in DOMAIN courts :
         IF Threw(k)
           THEN /\ parReturned[k].success = FALSE
                /\ parReturned[k].error = OwnError(k)
                /\ parReturned[k].courtName = CourtName(k)
                /\ allSettled[k].status = "rejected"
                /\ \E i \in DOMAIN parErrors :
                     parErrors[i] = [court |-> CourtName(k), error |-> OwnError(k)]
           ELSE /\ parReturned[k] = OwnValue(k, courts[k].ok)
                /\ allSettled[k].status = "fulfilled"
                /\ \E i \in DOMAIN parResults : parResults[i] = OwnValue(k, courts[k].ok)
    /\ Len(parResults) + Len(parErrors) = Len(courts)

\* Three attempts, the first one threw, a later one succeeded, and they finished
\* in an order other than the input order.
C1_Witness ==
  /\ ParDone
  /\ Len(courts) = 3
  /\ Threw(1)
  /\ \E k \in 2..3 : ~Threw(k) /\ courts[k].ok
  /\ finishOrder[1] # 1

\* ------------------------------------------------------------------------
\* Unlock polling: pollForDateUnlock (site adapter)
\* ------------------------------------------------------------------------

\* Time is counted in units of one clock step; a lookup or a timer may take up
\* to MaxLag steps longer than the least it can take.
MaxPollInterval == 2
MaxWaitLimit == 3
MaxLag == 1

\* Mutant: the deadline is tested before the lookup's result.
PollVerdict_DeadlineFirst(found, e, maxWait) ==
  IF e >= maxWait THEN "timeout" ELSE IF found THEN "returned" ELSE "sleep"

\* Mutant: the timeout is raised only once the elapsed time is above the limit.
PollVerdict_StrictDeadline(found, e, maxWait) ==
  IF found THEN "returned" ELSE IF e > maxWait THEN "timeout" ELSE "sleep"

\* if (element) return elapsed; ... if (elapsed >= maxWaitMs) throw ...;
\* otherwise onTick and wait for the next poll.
PollVerdict(found, e, maxWait) ==
  IF found THEN "returned" ELSE IF e >= maxWait THEN "timeout" ELSE "sleep"

PollIdle ==
  /\ pollPc = "idle"
  /\ pollNow = 0
  /\ pollIntervalMs = 0
  /\ maxWaitMs = 0
  /\ startTime = 0
  /\ elapsed = 0
  /\ prevElapsed = -1
  /\ attemptCount = 0
  /\ lookupSince = 0
  /\ wakeAt = 0
  /\ unlocked = FALSE
  /\ unlockedAt = -1
  /\ ticks = <<>>
  /\ pollResult = -1

\* const startTime = Date.now(); let attemptCount = 0;
PollInit ==
  /\ pollPc = "iterate"
  /\ pollNow \in 0..1
  /\ pollIntervalMs \in 1..MaxPollInterval
  /\ maxWaitMs \in 0..MaxWaitLimit
  /\ startTime = pollNow
  /\ elapsed = 0
  /\ prevElapsed = -1
  /\ attemptCount = 0
  /\ lookupSince = pollNow
  /\ wakeAt = 0
  /\ unlocked \in BOOLEAN
  /\ unlockedAt = IF unlocked THEN 0 ELSE -1
  /\ ticks = <<>>
  /\ pollResult = -1

PollEnded == pollPc \in {"returned", "timeout", "failed"}

\* const elapsed = Date.now() - startTime; attemptCount++;
PollIterate ==
  /\ pollPc = "iterate"
  /\ prevElapsed' = IF attemptCount = 0 THEN -1 ELSE elapsed
  /\ elapsed' = pollNow - startTime
  /\ attemptCount' = attemptCount + 1
  /\ lookupSince' = pollNow
  /\ pollPc' = "lookup"
  /\ UNCHANGED <<pollNow, pollIntervalMs, maxWaitMs, startTime, wakeAt, unlocked,
                 unlockedAt, ticks, pollResult>>

\* const element = await frame.$(selector) answers, and the iteration ends.
PollLookup ==
  /\ pollPc = "lookup"
  /\ LET verdict == PollVerdict(unlocked, elapsed, maxWaitMs) IN
       /\ pollPc' = verdict
       /\ pollResult' = IF verdict = "returned" THEN elapsed ELSE pollResult
       /\ ticks' = IF verdict = "sleep" THEN Append(ticks, elapsed) ELSE ticks
       /\ wakeAt' = IF verdict = "sleep" THEN pollNow + pollIntervalMs ELSE wakeAt
  /\ UNCHANGED <<pollNow, pollIntervalMs, maxWaitMs, startTime, elapsed, prevElapsed,
                 attemptCount, lookupSince, unlocked, unlockedAt>>

\* await frame.$(selector) rejects (the frame is gone): the error propagates.
PollLookupFails ==
  /\ pollPc = "lookup"
  /\ pollPc' = "failed"
  /\ UNCHANGED <<pollNow, pollIntervalMs, maxWaitMs, startTime, elapsed, prevElapsed,
                 attemptCount, lookupSince, wakeAt, unlocked, unlockedAt, ticks, pollResult>>

\* The setTimeout(resolve, pollIntervalMs) fires, no earlier than it is due.
PollWake ==
  /\ pollPc = "sleep"
  /\ pollNow >= wakeAt
  /\ pollPc' = "iterate"
  /\ UNCHANGED <<pollNow, pollIntervalMs, maxWaitMs, startTime, elapsed, prevElapsed,
                 attemptCount, lookupSince, wakeAt, unlocked, unlockedAt, ticks, pollResult>>

\* Time passes while a lookup or a timer is pending.
PollTick ==
  /\ \/ pollPc = "lookup" /\ pollNow < lookupSince + MaxLag
     \/ pollPc = "sleep" /\ pollNow < wakeAt + MaxLag
  /\ pollNow' = pollNow + 1
  /\ UNCHANGED <<pollPc, pollIntervalMs, maxWaitMs, startTime, elapsed, prevElapsed,
                 attemptCount, lookupSince, wakeAt, unlocked, unlockedAt, ticks, pollResult>>

\* The remote calendar starts to show the clickable day.
CalendarUnlocks ==
  /\ ~PollEnded
  /\ ~unlocked
  /\ unlocked' = TRUE
  /\ unlockedAt' = pollNow - startTime
  /\ UNCHANGED <<pollPc, pollNow, pollIntervalMs, maxWaitMs, startTime, elapsed,
                 prevElapsed, attemptCount, lookupSince, wakeAt, ticks, pollResult>>

PollNext ==
  /\ \/ PollIterate
     \/ PollLookup
     \/ PollLookupFails
     \/ PollWake
     \/ PollTick
     \/ CalendarUnlocks
  /\ UNCHANGED <<clsVars, parVars, waitVars, runVars, repVars, schVars, selVars, detVars, preVars, hintVars, sessVars>>

\* ---- Claims about unlock polling ----

AppearedBeforeDeadline == unlocked /\ unlockedAt < maxWaitMs

\* C7 as stated: the poll ends either by returning an elapsed time below
\* maxWaitMs, which it does whenever the affordance appeared before the
\* deadline, or otherwise by raising the timeout error with attemptCount > 0;
\* (an ending by a failed lookup is left aside).
C7_AsStated ==
  pollPc \in {"returned", "timeout"} =>
    /\ pollPc = "returned" => pollResult < maxWaitMs
    /\ AppearedBeforeDeadline => pollPc = "returned"
    /\ ~AppearedBeforeDeadline => pollPc = "timeout" /\ attemptCount > 0

\* C7 as the code has it: a return carries the elapsed time read at the start
\* of the iteration whose lookup found the affordance, and no earlier iteration
\* started at or after the deadline, so the value is below maxWaitMs unless it
\* was read by the one iteration that starts at or after the deadline; the
\* timeout error is raised, with attemptCount > 0, only by the first iteration
\* that starts at elapsed >= maxWaitMs and only when no lookup has found the
\* affordance, so never when it appeared before the deadline.
C7_LookupBeforeDeadline ==
  /\ pollPc = "returned" =>
       /\ pollResult = elapsed
       /\ unlocked
       /\ attemptCount > 0
       /\ prevElapsed < maxWaitMs
  /\ pollPc = "timeout" =>
       /\ attemptCount > 0
       /\ elapsed >= maxWaitMs
       /\ prevElapsed < maxWaitMs
       /\ ~unlocked
       /\ pollResult = -1
  /\ pollPc = "failed" => pollResult = -1

\* The affordance appeared before the deadline and the poll returned an elapsed
\* time that is not below maxWaitMs.
C7_Witness ==
  /\ pollPc = "returned"
  /\ AppearedBeforeDeadline
  /\ pollResult >= maxWaitMs
  /\ attemptCount > 1

\* The poll ended by its own return or by its own timeout error.
PollReturnedOrTimedOut == pollPc \in {"returned", "timeout"}

\* C28 as stated: pollForUnlock calls onTick(elapsed) once in every loop
\* iteration, the iteration that observes the affordance and the iteration
\* that times out included, so when the poll has ended the number of onTick
\* calls equals the attempt count.
C28_TickEveryIteration ==
  PollReturnedOrTimedOut => Len(ticks) = attemptCount

\* What the code does instead: onTick is called only by an iteration that goes
\* on to sleep, so the last iteration calls none and the calls are one fewer
\* than the attempts.
C28_TickBeforeEverySleep ==
  PollReturnedOrTimedOut => Len(ticks) = attemptCount - 1

\* The poll timed out after several iterations, the last of which called no
\* onTick.
C28_LastIterationSilent ==
  /\ pollPc = "timeout"
  /\ attemptCount >= 2
  /\ Len(ticks) = attemptCount - 1

\* ceil(a / b) for a >= 0 and b > 0.
CeilDiv(a, b) == (a + b - 1) \div b

\* The most iterations the loop can make: ceil(maxWaitMs / pollIntervalMs) + 1.
IterationBound == CeilDiv(maxWaitMs, pollIntervalMs) + 1

\* One loop iteration begins: the attempt count goes up by one and the elapsed
\* time read is above the one the previous iteration read.
IterationAdvances ==
  (pollPc = "iterate" /\ pollPc' = "lookup") =>
    /\ attemptCount' = attemptCount + 1
    /\ attemptCount > 0 => elapsed' > elapsed

\* C29: pollForUnlock terminates whatever the remote calendar does: from one
\* iteration to the next the attempt count and the elapsed time only increase,
\* the loop never makes more than ceil(maxWaitMs / pollIntervalMs) + 1
\* iterations, and the poll ends; when the affordance never appeared and the
\* lookups answered, it ends by the timeout error.
C29_Terminates ==
  /\ [][IterationAdvances]_vars
  /\ [](pollPc # "idle" => attemptCount <= IterationBound)
  /\ <>PollEnded
  /\ [](PollEnded /\ ~unlocked /\ pollPc # "failed" => pollPc = "timeout")

\* The affordance never appeared and the timeout error was raised by the
\* iteration number ceil(maxWaitMs / pollIntervalMs) + 1, after several sleeps.
C29_BoundReached ==
  /\ pollPc = "timeout"
  /\ ~unlocked
  /\ attemptCount = IterationBound
  /\ attemptCount >= 3

\* ------------------------------------------------------------------------
\* The wait for the unlock instant: waitUntilMidnight (both scripts)
\* ------------------------------------------------------------------------

\* The clock counts ticks, TicksPerSecond to the second, from a Costa Rica
\* midnight.  A timer fires up to MaxLate ticks after it is due.  The wait is
\* called at most MaxLead seconds before the unlock instant and is followed for
\* MaxOvershoot seconds after it.
TicksPerSecond == 4
MaxLate == 1
MaxLead == 2
MaxOvershoot == 2

\* nowInCR(): the Costa Rica wall clock, which has whole seconds only.
nowInCR(clock) == clock \div TicksPerSecond
getHours(s) == (s \div 3600) % 24
getMinutes(s) == (s \div 60) % 60
getSeconds(s) == s % 60

\* hours === 0 && minutes === 0 && seconds === 0
IsMidnight(clock) ==
  LET s == nowInCR(clock) IN getHours(s) = 0 /\ getMinutes(s) = 0 /\ getSeconds(s) = 0

\* The unlock instant: the midnight that follows the call.
UnlockInstant == 24 * 3600 * TicksPerSecond

\* setTimeout(checkMidnight, Math.min((60 - seconds) * 1000, 1000)) and
\* setTimeout(resolve, 1000): one second either way.
SleepTicks(path, clock) ==
  IF path = "browser"
    THEN LET timeLeft == (60 - getSeconds(nowInCR(clock))) * TicksPerSecond
         IN IF timeLeft < TicksPerSecond THEN timeLeft ELSE TicksPerSecond
    ELSE TicksPerSecond

WaitIdle ==
  /\ waitPath = "api"
  /\ waitTest = FALSE
  /\ waitPc = "idle"
  /\ waitNow = 0
  /\ waitWakeAt = 0
  /\ waitReturnedAt = -1

WaitInit ==
  /\ waitPath \in {"api", "browser"}
  /\ waitTest \in BOOLEAN
  /\ waitPath = "browser" => ~waitTest
  /\ waitPc = "called"
  /\ waitNow \in (UnlockInstant - MaxLead * TicksPerSecond)..(UnlockInstant - 1)
  /\ waitWakeAt = waitNow
  /\ waitReturnedAt = -1

\* if (ARGS.test) return null;
WaitSkipped ==
  /\ waitPc = "called"
  /\ waitPath = "api" /\ waitTest
  /\ waitPc' = "skipped"
  /\ waitReturnedAt' = waitNow
  /\ UNCHANGED <<waitPath, waitTest, waitNow, waitWakeAt>>

\* One pass of the loop (the first one at the call, the later ones when the
\* timer fires): read the wall clock, return at 00:00:00, else sleep a second.
WaitCheck ==
  /\ \/ waitPc = "called" /\ ~(waitPath = "api" /\ waitTest)
     \/ waitPc = "sleep" /\ waitNow >= waitWakeAt
  /\ IF IsMidnight(waitNow)
       THEN /\ waitPc' = "returned"
            /\ waitReturnedAt' = waitNow
            /\ UNCHANGED waitWakeAt
       ELSE /\ waitPc' = IF waitNow < UnlockInstant + MaxOvershoot * TicksPerSecond
                           THEN "sleep" ELSE "late"
            /\ waitWakeAt' = waitNow + SleepTicks(waitPath, waitNow)
            /\ UNCHANGED waitReturnedAt
  /\ UNCHANGED <<waitPath, waitTest, waitNow>>

\* Time passes while the timer is pending.
WaitTick ==
  /\ waitPc = "sleep"
  /\ waitNow < waitWakeAt + MaxLate
  /\ waitNow' = waitNow + 1
  /\ UNCHANGED <<waitPath, waitTest, waitPc, waitWakeAt, waitReturnedAt>>

WaitNext ==
  /\ \/ WaitSkipped
     \/ WaitCheck
     \/ WaitTick
  /\ UNCHANGED <<clsVars, parVars, pollVars, runVars, repVars, schVars, selVars, detVars, preVars, hintVars, sessVars>>

\* ---- Claims about the wait ----

\* C5: in production mode the wait, called before the unlock instant, does not
\* return before the instant, and it has returned once the clock is more than
\* one second (and the lateness of one timer) past the instant.
C5_ReturnsWithinOneSecond ==
  ~waitTest =>
    /\ waitPc = "returned" => waitReturnedAt >= UnlockInstant
    /\ waitNow >= UnlockInstant + TicksPerSecond + MaxLate => waitPc = "returned"

\* The half of C5 that holds: no return before the instant in production mode.
C5_NotBeforeInstant ==
  (~waitTest /\ waitReturnedAt # -1) =>
     /\ waitReturnedAt >= UnlockInstant
     /\ waitReturnedAt < UnlockInstant + TicksPerSecond

\* A wake-up fell in the second after 00:00:00 and the wait is still sleeping.
C5_MissedInstant ==
  /\ ~waitTest
  /\ waitPc = "sleep"
  /\ waitNow >= UnlockInstant + TicksPerSecond
  /\ waitWakeAt > UnlockInstant + TicksPerSecond

\* ------------------------------------------------------------------------
\* The run: main of the browser orchestrator with reservePhase, and main of
\* the API script with reserveCourt
\* ------------------------------------------------------------------------

Courts == {1, 2}

\* CONFIG.courts.court1.daysAhead and CONFIG.courts.court2.daysAhead
DaysAhead == <<9, 8>>

\* parseInt(process.env.LOGIN_LEAD_MS || "30000", 10), in seconds
LoginLeadSeconds == 30

DayLength == 24 * 3600

\* The runs start an hour or twenty seconds before a midnight; a login takes
\* five or forty seconds; --target-date names day TestDay.
StartTimes == {DayLength - 3600, DayLength - 20}
LoginDurations == {5, 40}
TestDay == 4

crDay(clock) == clock \div DayLength

\* crMidnight(): midnight of the current Costa Rica day
crMidnight(clock) == crDay(clock)

\* addDaysCR(base, days)
addDaysCR(base, days) == base + days

\* msUntilNextCRMidnight(): nextMidnight.setHours(24, 0, 0, 0) minus now
msUntilNextCRMidnight(clock) == (crDay(clock) + 1) * DayLength - clock

\* waitUntilPreMidnightWindow(offset) returns once the remaining time is at
\* most the offset.
PreMidnightWindowReturn(clock) ==
  IF msUntilNextCRMidnight(clock) > LoginLeadSeconds
    THEN clock + (msUntilNextCRMidnight(clock) - LoginLeadSeconds)
    ELSE clock

\* waitUntilMidnight() returns in the first second of a day: at once when the
\* clock reads 00:00:00, else at the next midnight, or a day later for every
\* midnight second in which no wake-up fell (at most MaxMissed of them here).
MaxMissed == 1

MidnightReturn(clock, missed) ==
  IF getHours(clock) = 0 /\ getMinutes(clock) = 0 /\ getSeconds(clock) = 0
    THEN clock
    ELSE clock + msUntilNextCRMidnight(clock) + missed * DayLength

\* Mutant: today is the day on which main started.
ReadToday_AtStart(started, clock) == crMidnight(started)

\* const today = crMidnight(), read where main computes the target dates.
ReadToday(started, clock) == crMidnight(clock)

\* process.env.ALLOW_BOOKING === "1" ||
\*   (fs.existsSync("/tmp/allow_booking") && !ARGS.noBooking)
allowBooking(e, args) == e.ALLOW_BOOKING \/ (e.allowFile /\ ~args.noBooking)

\* const shouldSubmit = !ARGS.shadowMode && allowBooking
shouldSubmit(e, args) == ~args.shadowMode /\ allowBooking(e, args)

\* date.getDay(): 0 is Sunday
getDay(date) == (date + 4) % 7

\* getDayOfWeek(date) of time-cr.ts
getDayOfWeek(date) ==
  <<"Sunday", "Monday", "Tuesday", "Wednesday", "Thursday", "Friday", "Saturday">>[getDay(date) + 1]

\* The window --court1-time and --court2-time are given in the runs that give one.
OverrideWindow == "08:00 AM - 09:00 AM"

\* No time slot: the undefined of a day without a configured window, the
\* null of an option not given.
NoTimeSlot == ""

\* CONFIG.courts.court1.slots and CONFIG.courts.court2.slots of the
\* orchestrator and of the API script.
ConfiguredSlots(path, c) ==
  IF path = "browser" /\ c = 1 THEN
    [Monday |-> "06:00 AM - 07:00 AM", Tuesday |-> "06:00 AM - 07:00 AM",
     Wednesday |-> "06:00 AM - 07:00 AM", Thursday |-> "06:00 AM - 07:00 AM",
     Friday |-> "06:00 AM - 07:00 AM", Saturday |-> "09:00 AM - 10:00 AM"]
  ELSE IF path = "browser" THEN
    [Tuesday |-> "07:00 AM - 08:00 AM", Wednesday |-> "07:00 AM - 08:00 AM",
     Thursday |-> "07:00 AM - 08:00 AM", Friday |-> "07:00 AM - 08:00 AM"]
  ELSE IF c = 1 THEN
    [Monday |-> "06:00 AM - 07:00 AM", Wednesday |-> "06:00 AM - 07:00 AM",
     Friday |-> "06:00 AM - 07:00 AM", Saturday |-> "09:00 AM - 10:00 AM"]
  ELSE
    [Monday |-> "07:00 AM - 08:00 AM", Wednesday |-> "06:00 AM - 07:00 AM",
     Friday |-> "07:00 AM - 08:00 AM", Saturday |-> "07:00 AM - 08:00 AM"]

\* const court1TimeSlot = ARGS.court1Time || CONFIG.courts.court1.slots[dayOfWeek1]
\* (and Court 2), for the target dates of the run.
TimeSlotOf(path, args, dates, c) ==
  LET given == IF c = 1 THEN args.court1Time ELSE args.court2Time
      slots == ConfiguredSlots(path, c)
      dayOfWeek == getDayOfWeek(dates[c])
  IN IF given # NoTimeSlot THEN given
     ELSE IF dayOfWeek \in DOMAIN slots THEN slots[dayOfWeek]
     ELSE NoTimeSlot

\* Mutant: a court without a time slot is reserved all the same.
shouldReserve_WithoutSlot(path, args, dates, c) ==
  IF c = 1 THEN ~args.skipCourt1 ELSE ~args.skipCourt2

\* const shouldReserveCourt1 = court1TimeSlot && !ARGS.skipCourt1 (and Court 2);
\* if (!ARGS.skipCourt1 && court1Time) in the API script.
shouldReserve(path, args, dates, c) ==
  /\ TimeSlotOf(path, args, dates, c) # NoTimeSlot
  /\ IF c = 1 THEN ~args.skipCourt1 ELSE ~args.skipCourt2

ShouldReserveSet(path, args, dates) == {c \in Courts : shouldReserve(path, args, dates, c)}

\* The pages of the run: loginPage, the loginPage2 opened in the same context,
\* and the page of the context created for Court 2.
Pages == {"loginPage", "loginPage2", "context2Page"}

\* Mutant: both attempts are handed the page of the login.
PageFor_LoginPage(c, path, args, dates) == "loginPage"

\* The page main hands to the reservePhase of court c.
PageFor(c, path, args, dates) ==
  IF c = 1 THEN "loginPage"
  ELSE IF args.sessionMode = "single" /\ ShouldReserveSet(path, args, dates) = Courts
    THEN "loginPage2"
  ELSE IF shouldReserve(path, args, dates, 1) /\ args.sessionMode = "contexts"
    THEN "context2Page"
  ELSE "loginPage"

\* Mutant: a failed login is logged and the run goes on.
AfterLogin_GoesOn(ok) == "midnightWait"

\* catch (error) { throw new Error(`Login failed: ...`) } leads to the fatal catch.
AfterLogin(ok) == IF ok THEN "midnightWait" ELSE "fatal"

Idle == [pc |-> "idle", success |-> FALSE, error |-> ""]
Fulfilled(ok, error) == [pc |-> "fulfilled", success |-> ok, error |-> error]
Rejected(error) == [pc |-> "rejected", success |-> FALSE, error |-> error]
At(step) == [pc |-> step, success |-> FALSE, error |-> ""]

Settled(a) == a.pc \in {"fulfilled", "rejected"}

\* A Date object: a time value, or the Invalid Date of an unparsable text.
DateOf(time) == [valid |-> TRUE, time |-> time]

InvalidDate == [valid |-> FALSE, time |-> 0]

\* A number: a value, or NaN.
Num(value) == [nan |-> FALSE, value |-> value]

NaN == [nan |-> TRUE, value |-> 0]

\* Date.prototype.getTime
getTime(d) == IF d.valid THEN Num(d.time) ELSE NaN

\* a - b on numbers
Minus(a, b) == IF a.nan \/ b.nan THEN NaN ELSE Num(a.value - b.value)

\* The Date header of a response: absent, or a text that new Date() parses
\* to a time or to the Invalid Date.
NoHeader == [present |-> FALSE, parsable |-> FALSE, time |-> 0]

GarbageHeader == [present |-> TRUE, parsable |-> FALSE, time |-> 0]

StampHeader(time) == [present |-> TRUE, parsable |-> TRUE, time |-> time]

\* new Date(dateHeader)
NewDate(h) == IF h.parsable THEN DateOf(h.time) ELSE InvalidDate

\* How far the server's clock is from the local one in the responses tried.
ServerOffsets == {-2, 0, 3}

\* The outcomes of fetch(url, { method: 'HEAD' }): it rejects, or it resolves
\* to a response with one of the headers.
HeadOutcomes(localTime) ==
  {[rejected |-> TRUE, date |-> NoHeader]}
    \cup {[rejected |-> FALSE, date |-> h] :
            h \in {NoHeader, GarbageHeader} \cup {StampHeader(localTime + d) : d \in ServerOffsets}}

\* const skewMs = serverTime.getTime() - localTime.getTime()
SkewOf(serverTime, localTime) == Minus(getTime(serverTime), getTime(localTime))

\* getServerTime
getServerTime(outcome, localTime) ==
  LET local == DateOf(localTime)
      fallback == [called |-> TRUE, outcome |-> outcome, serverTime |-> local,
                   localTime |-> local, skewMs |-> Num(0)]
  IN IF outcome.rejected THEN fallback
     ELSE IF ~outcome.date.present THEN fallback
     ELSE LET serverTime == NewDate(outcome.date)
          IN [called |-> TRUE, outcome |-> outcome, serverTime |-> serverTime,
              localTime |-> local, skewMs |-> SkewOf(serverTime, local)]

\* No server time check made, or its result out of scope.
NoServerTime ==
  [called |-> FALSE, outcome |-> [rejected |-> TRUE, date |-> NoHeader],
   serverTime |-> InvalidDate, localTime |-> InvalidDate, skewMs |-> Num(0)]

\* Date.prototype.toISOString throws a RangeError on the Invalid Date.
toISOStringThrows(d) == ~d.valid

\* createSessionState(initialMode)
createSessionState(initialMode) ==
  [mode |-> initialMode, fallbackApplied |-> FALSE, fallbackEvents |-> <<>>]

\* Mutant: the event is put in front of the earlier ones.
recordFallback_Unshift(state, court, reason) ==
  [state EXCEPT !.fallbackApplied = TRUE,
                !.fallbackEvents = <<[court |-> court, reason |-> reason]>> \o @]

\* recordFallback(sessionState, court, reason); the timestamp of the event is
\* left out.
recordFallback(state, court, reason) ==
  [state EXCEPT !.fallbackApplied = TRUE,
                !.fallbackEvents = Append(@, [court |-> court, reason |-> reason])]

\* The error of an unclassified response whose raw text speaks of the expired
\* session and the login.
SessionLostError == "UNKNOWN_ERROR: session expired, login again"

\* The error texts of the model that include "login", "auth", "session" or
\* "csrf" once in lower case.
AuthTexts == {SessionLostError}

\* const hasAuthErrors = errors.some((e) => e.error.toLowerCase().includes(...))
hasAuthErrors(errs) == \E i \in DOMAIN errs : errs[i].error \in AuthTexts

\* No payload received.
NoPayload == [received |-> FALSE, result |-> 0, msg |-> JsUndefined]

\* poster_callback({ "poster": { "result": ..., "msg": ... } })
Poster(result, msg) == [received |-> TRUE, result |-> result, msg |-> msg]

\* The values of the numeric success flag in the payloads tried.
PosterResults == {0, 1}

\* parseJSONPResponse: success is poster.result === 1, message is poster.msg
parseJSONPResponse(poster) == [success |-> poster.result = 1, message |-> poster.msg]

\* reserveCourt after createReservation: the status is the type the classifier
\* gives to result.message.
OutcomeOfResult(result) ==
  LET type == classifyMessage(result.message).type IN Fulfilled(type = "SUCCESS", type)

\* A login of the run: the session it is for, whether the wait for midnight
\* had returned, and how many attempts had been started before it.
LoginAt(session, afterWait, started) ==
  [session |-> session, afterWait |-> afterWait, started |-> started]

\* const telemetry = { unlockMs: 0, formReadyMs: 0, submitMs: 0 }
NewTelemetry == [unlockMs |-> "0", formReadyMs |-> "0", submitMs |-> "0"]

NoReport == [kind |-> "none", results |-> <<>>, errors |-> <<>>]

RunIdle ==
  /\ runPath = "browser"
  /\ ARGS = [test |-> FALSE, targetDate |-> FALSE, dryRun |-> FALSE, shadowMode |-> FALSE,
             noBooking |-> FALSE, sessionMode |-> "single", skipCourt1 |-> FALSE,
             skipCourt2 |-> FALSE, court1Time |-> NoTimeSlot, court2Time |-> NoTimeSlot]
  /\ env = [ALLOW_BOOKING |-> FALSE, allowFile |-> FALSE]
  /\ mainPc = "idle"
  /\ now = 0
  /\ startedAt = 0
  /\ loginOk = "none"
  /\ t0Time = -1
  /\ today = -1
  /\ todayReadAt = -1
  /\ targetDate = [c \in Courts |-> -1]
  /\ attempted = {}
  /\ attempts = [c \in Courts |-> Idle]
  /\ results = <<>>
  /\ errors = <<>>
  /\ report = NoReport
  /\ exitCode = -1
  /\ submissions = <<>>
  /\ starts = [c \in Courts |-> 0]
  /\ trace = [c \in Courts |-> <<>>]
  /\ telemetry = [c \in Courts |-> NewTelemetry]
  /\ network = FALSE
  /\ serverTimeResult = NoServerTime
  /\ sessionState = createSessionState("single")
  /\ warned = FALSE
  /\ payloads = [c \in Courts |-> NoPayload]
  /\ logins = <<>>
  /\ pageUse = [p \in Pages |-> {}]

\* The API script reads --test, --target-date, --skip-court1 and --skip-court2 only.
RunInit ==
  /\ runPath \in {"browser", "api"}
  /\ ARGS \in [test : BOOLEAN, targetDate : BOOLEAN, dryRun : BOOLEAN, shadowMode : BOOLEAN,
               noBooking : BOOLEAN, sessionMode : {"single", "contexts"},
               skipCourt1 : BOOLEAN, skipCourt2 : BOOLEAN,
               court1Time : {NoTimeSlot, OverrideWindow},
               court2Time : {NoTimeSlot, OverrideWindow}]
  /\ ARGS.targetDate => ARGS.test
  /\ runPath = "api" =>
       ~ARGS.dryRun /\ ~ARGS.shadowMode /\ ~ARGS.noBooking /\ ARGS.sessionMode = "single"
  /\ env \in [ALLOW_BOOKING : BOOLEAN, allowFile : BOOLEAN]
  /\ mainPc = "start"
  /\ now \in StartTimes
  /\ startedAt = now
  /\ loginOk = "none"
  /\ t0Time = -1
  /\ today = -1
  /\ todayReadAt = -1
  /\ targetDate = [c \in Courts |-> -1]
  /\ attempted = {}
  /\ attempts = [c \in Courts |-> Idle]
  /\ results = <<>>
  /\ errors = <<>>
  /\ report = NoReport
  /\ exitCode = -1
  /\ submissions = <<>>
  /\ starts = [c \in Courts |-> 0]
  /\ trace = [c \in Courts |-> <<>>]
  /\ telemetry = [c \in Courts |-> NewTelemetry]
  /\ network = FALSE
  /\ serverTimeResult = NoServerTime
  /\ sessionState = createSessionState(ARGS.sessionMode)
  /\ warned = FALSE
  /\ payloads = [c \in Courts |-> NoPayload]
  /\ logins = <<>>
  /\ pageUse = [p \in Pages |-> {}]

\* ---- main of the browser orchestrator ----

\* The server time check, whose result the log lines format, then the
\* test-mode target dates; test mode without --target-date exits at once.
Start ==
  /\ runPath = "browser" /\ mainPc = "start"
  /\ \E outcome \in HeadOutcomes(now) :
       LET r == IF ARGS.test THEN NoServerTime ELSE getServerTime(outcome, now) IN
       /\ serverTimeResult' = r
       /\ IF ~ARGS.test /\ (toISOStringThrows(r.serverTime) \/ toISOStringThrows(r.localTime))
            THEN mainPc' = "fatal" /\ UNCHANGED <<targetDate, exitCode>>
          ELSE IF ARGS.test /\ ARGS.targetDate
            THEN /\ targetDate' = [c \in Courts |-> TestDay]
                 /\ mainPc' = "preLogin"
                 /\ UNCHANGED exitCode
          ELSE IF ~ARGS.test
            THEN mainPc' = "preLogin" /\ UNCHANGED <<targetDate, exitCode>>
          ELSE mainPc' = "exited" /\ exitCode' = 1 /\ UNCHANGED targetDate
  /\ network' = (network \/ ~ARGS.test)
  /\ UNCHANGED <<starts, trace, telemetry, sessionState, warned, payloads, logins, pageUse, runPath, ARGS, env, now, startedAt, loginOk, t0Time,
                 today, todayReadAt, attempted, attempts, results, errors, report,
                 submissions>>

\* if (msUntilNextCRMidnight() > loginLeadMs) await waitUntilPreMidnightWindow(...)
PreLoginWait ==
  /\ runPath = "browser" /\ mainPc = "preLogin"
  /\ now' = IF ARGS.test THEN now ELSE PreMidnightWindowReturn(now)
  /\ mainPc' = "login"
  /\ serverTimeResult' = NoServerTime
  /\ UNCHANGED <<starts, trace, telemetry, network, sessionState, warned, payloads, logins, pageUse, runPath, ARGS, env, startedAt, loginOk, t0Time, today, todayReadAt,
                 targetDate, attempted, attempts, results, errors, report, exitCode,
                 submissions>>

\* Phase 1: the login succeeds, or it fails (a timeout, no dashboard marker).
Login ==
  /\ runPath = "browser" /\ mainPc = "login"
  /\ \E ok \in BOOLEAN, took \in LoginDurations :
       /\ now' = now + took
       /\ loginOk' = IF ok THEN "ok" ELSE "failed"
       /\ mainPc' = AfterLogin(ok)
  /\ network' = TRUE
  /\ logins' = Append(logins, LoginAt(1, FALSE, starts[1] + starts[2]))
  /\ UNCHANGED <<starts, trace, telemetry, serverTimeResult, sessionState, warned, payloads, pageUse, runPath, ARGS, env, startedAt, t0Time, today, todayReadAt, targetDate,
                 attempted, attempts, results, errors, report, exitCode, submissions>>

\* if (!ARGS.test) { if (msUntilNextCRMidnight() > 0) await waitUntilMidnight();
\* t0Time = Date.now(); }
MidnightWait ==
  /\ runPath = "browser" /\ mainPc = "midnightWait"
  /\ IF ARGS.test
       THEN UNCHANGED <<now, t0Time>>
       ELSE IF msUntilNextCRMidnight(now) > 0
         THEN \E missed \in 0..MaxMissed :
                now' = MidnightReturn(now, missed) /\ t0Time' = now'
         ELSE now' = now /\ t0Time' = now
  /\ mainPc' = "dates"
  /\ UNCHANGED <<starts, trace, telemetry, network, serverTimeResult, sessionState, warned, payloads, logins, pageUse, runPath, ARGS, env, startedAt, loginOk, today, todayReadAt, targetDate,
                 attempted, attempts, results, errors, report, exitCode, submissions>>

\* Production mode computes the target dates now; then main decides what to
\* reserve: nothing (return), a dry run (return), both courts in parallel on the
\* shared session, or the courts one after the other.
TargetDates ==
  /\ runPath = "browser" /\ mainPc = "dates"
  /\ IF ARGS.test
       THEN UNCHANGED <<today, todayReadAt, targetDate>>
       ELSE /\ today' = ReadToday(startedAt, now)
            /\ todayReadAt' = now
            /\ targetDate' = [c \in Courts |-> addDaysCR(today', DaysAhead[c])]
  /\ IF ShouldReserveSet(runPath, ARGS, targetDate') = {} \/ ARGS.dryRun
       THEN mainPc' = "exited" /\ exitCode' = 0 /\ UNCHANGED attempted
       ELSE /\ attempted' = ShouldReserveSet(runPath, ARGS, targetDate')
            /\ mainPc' = IF ARGS.sessionMode = "single" /\ ShouldReserveSet(runPath, ARGS, targetDate') = Courts
                           THEN "page2"
                         ELSE IF shouldReserve(runPath, ARGS, targetDate', 1) THEN "court1" ELSE "court2"
            /\ UNCHANGED exitCode
  /\ UNCHANGED <<starts, trace, telemetry, network, serverTimeResult, sessionState, warned, payloads, logins, pageUse, runPath, ARGS, env, now, startedAt, loginOk, t0Time, attempts, results,
                 errors, report, submissions>>

PushOutcome(c) ==
  IF attempts[c].pc = "fulfilled"
    THEN /\ results' = Append(results, [court |-> c, success |-> attempts[c].success,
                                         error |-> attempts[c].error])
         /\ UNCHANGED errors
    ELSE /\ errors' = Append(errors, [court |-> c, success |-> FALSE,
                                       error |-> attempts[c].error])
         /\ UNCHANGED results

\* Shared session: the second page is opened and navigated, then both attempts
\* are started under Promise.allSettled.  A failed navigation is not caught.
Page2 ==
  /\ runPath = "browser" /\ mainPc = "page2"
  /\ \E ok \in BOOLEAN :
       IF ok
         THEN /\ attempts' = [c \in Courts |-> At("open")]
              /\ mainPc' = "parallel"
         ELSE /\ mainPc' = "fatal"
              /\ UNCHANGED attempts
  /\ network' = TRUE
  /\ starts' = IF mainPc' = "parallel" THEN [c \in Courts |-> starts[c] + 1] ELSE starts
  /\ UNCHANGED <<trace, telemetry, serverTimeResult, sessionState, warned, payloads, logins, pageUse, runPath, ARGS, env, now, startedAt, loginOk, t0Time, today, todayReadAt,
                 targetDate, attempted, results, errors, report, exitCode, submissions>>

\* parallelResults.forEach(...): Court 1's entry first, then Court 2's.
ParallelDone ==
  /\ runPath = "browser" /\ mainPc = "parallel"
  /\ \A c \in Courts : Settled(attempts[c])
  /\ LET acc == ProcessSettled(
                  [c \in 1..2 |-> [status |-> attempts[c].pc,
                                   value |-> [court |-> c, success |-> attempts[c].success,
                                              error |-> attempts[c].error],
                                   reason |-> attempts[c].error]],
                  1, [results |-> <<>>, errors |-> <<>>]) IN
       /\ results' = acc.results
       /\ errors' = [i \in DOMAIN acc.errors |->
                       [court |-> acc.errors[i].court[2], success |-> FALSE,
                        error |-> acc.errors[i].error]]
  /\ mainPc' = "summary"
  /\ warned' = hasAuthErrors(errors')
  /\ UNCHANGED <<starts, trace, telemetry, network, serverTimeResult, sessionState, payloads, logins, pageUse, runPath, ARGS, env, now, startedAt, loginOk, t0Time, today, todayReadAt,
                 targetDate, attempted, attempts, report, exitCode, submissions>>

\* Sequential: Court 1's reservePhase is awaited inside try/catch.
Court1Start ==
  /\ runPath = "browser" /\ mainPc = "court1"
  /\ attempts' = [attempts EXCEPT ![1] = At("open")]
  /\ mainPc' = "court1Running"
  /\ starts' = [starts EXCEPT ![1] = @ + 1]
  /\ UNCHANGED <<trace, telemetry, network, serverTimeResult, sessionState, warned, payloads, logins, pageUse, runPath, ARGS, env, now, startedAt, loginOk, t0Time, today, todayReadAt,
                 targetDate, attempted, results, errors, report, exitCode, submissions>>

Court1Done ==
  /\ runPath = "browser" /\ mainPc = "court1Running"
  /\ Settled(attempts[1])
  /\ PushOutcome(1)
  /\ mainPc' = IF shouldReserve(runPath, ARGS, targetDate, 2) THEN "court2" ELSE "summary"
  /\ UNCHANGED <<starts, trace, telemetry, network, serverTimeResult, sessionState, warned, payloads, logins, pageUse, runPath, ARGS, env, now, startedAt, loginOk, t0Time, today, todayReadAt,
                 targetDate, attempted, attempts, report, exitCode, submissions>>

\* Court 2 logs in on a context of its own when both courts run in contexts
\* mode; a failure there is rethrown and no handler but the fatal one takes it.
Court2Start ==
  /\ runPath = "browser" /\ mainPc = "court2"
  /\ \E ok \in BOOLEAN :
       IF shouldReserve(runPath, ARGS, targetDate, 1) /\ ARGS.sessionMode = "contexts" /\ ~ok
         THEN /\ mainPc' = "fatal"
              /\ UNCHANGED attempts
         ELSE /\ attempts' = [attempts EXCEPT ![2] = At("open")]
              /\ mainPc' = "court2Running"
  /\ network' = (network \/ (shouldReserve(runPath, ARGS, targetDate, 1) /\ ARGS.sessionMode = "contexts"))
  /\ starts' = IF mainPc' = "court2Running" THEN [starts EXCEPT ![2] = @ + 1] ELSE starts
  /\ logins' = IF shouldReserve(runPath, ARGS, targetDate, 1) /\ ARGS.sessionMode = "contexts"
                 THEN Append(logins, LoginAt(2, TRUE, starts[1] + starts[2]))
                 ELSE logins
  /\ UNCHANGED <<trace, telemetry, serverTimeResult, sessionState, warned, payloads, pageUse, runPath, ARGS, env, now, startedAt, loginOk, t0Time, today, todayReadAt,
                 targetDate, attempted, results, errors, report, exitCode, submissions>>

Court2Done ==
  /\ runPath = "browser" /\ mainPc = "court2Running"
  /\ Settled(attempts[2])
  /\ PushOutcome(2)
  /\ mainPc' = "summary"
  /\ UNCHANGED <<starts, trace, telemetry, network, serverTimeResult, sessionState, warned, payloads, logins, pageUse, runPath, ARGS, env, now, startedAt, loginOk, t0Time, today, todayReadAt,
                 targetDate, attempted, attempts, report, exitCode, submissions>>

\* The heading over the results of the summary e-mail.
ResultsHeading(args) ==
  IF args.shadowMode \/ args.test THEN "SHADOW MODE - WOULD HAVE RESERVED"
  ELSE "REAL BOOKINGS CONFIRMED"

\* The subject of the summary e-mail: the wording and the two counts.
SubjectOf(res, errs) ==
  IF Len(res) > 0 /\ Len(errs) = 0
    THEN [text |-> "Reservations Confirmed", count |-> Len(res), of |-> Len(res)]
  ELSE IF Len(res) > 0 /\ Len(errs) > 0
    THEN [text |-> "Partial Success", count |-> Len(res), of |-> Len(res) + Len(errs)]
  ELSE [text |-> "Reservation Failed", count |-> 0, of |-> 0]

\* The summary e-mail, then exit 1 when there were errors.
Summary ==
  /\ runPath = "browser" /\ mainPc = "summary"
  /\ report' = [kind |-> "summary", results |-> results, errors |-> errors]
  /\ exitCode' = IF Len(errors) > 0 THEN 1 ELSE 0
  /\ mainPc' = "exited"
  /\ UNCHANGED <<starts, trace, telemetry, network, serverTimeResult, sessionState, warned, payloads, logins, pageUse, runPath, ARGS, env, now, startedAt, loginOk, t0Time, today, todayReadAt,
                 targetDate, attempted, attempts, results, errors, submissions>>

\* catch (error): the "Reservation Script Error" e-mail and process.exit(1).
Fatal ==
  /\ runPath = "browser" /\ mainPc = "fatal"
  /\ report' = [kind |-> "fatal", results |-> <<>>, errors |-> <<>>]
  /\ exitCode' = 1
  /\ mainPc' = "exited"
  /\ serverTimeResult' = NoServerTime
  /\ UNCHANGED <<starts, trace, telemetry, network, sessionState, warned, payloads, logins, pageUse, runPath, ARGS, env, now, startedAt, loginOk, t0Time, today, todayReadAt,
                 targetDate, attempted, attempts, results, errors, submissions>>

\* ---- reservePhase ----

\* The types detectError gives; an unknown response is taken twice, without
\* and with a raw text that speaks of the session.
DetectedTypes ==
  {"SUCCESS", "SLOT_TAKEN", "RESERVATION_LIMIT", "NOT_YET_AVAILABLE", "UNKNOWN",
   "UNKNOWN_SESSION"}

\* Mutant: a slot that was taken is submitted again.
AfterDetect_RetrySlotTaken(type) ==
  IF type = "SUCCESS" THEN Fulfilled(TRUE, "")
  ELSE IF type = "SLOT_TAKEN" THEN At("submit")
  ELSE IF type = "RESERVATION_LIMIT" THEN Rejected("RESERVATION_LIMIT")
  ELSE IF type = "NOT_YET_AVAILABLE" THEN Rejected("DATE_NOT_AVAILABLE_YET")
  ELSE IF type = "UNKNOWN_SESSION" THEN Rejected(SessionLostError)
  ELSE Rejected("UNKNOWN_ERROR")

\* What reservePhase does with the detected type.
AfterDetect(type) ==
  IF type = "SUCCESS" THEN Fulfilled(TRUE, "")
  ELSE IF type = "SLOT_TAKEN" THEN Rejected("SLOT_TAKEN")
  ELSE IF type = "RESERVATION_LIMIT" THEN Rejected("RESERVATION_LIMIT")
  ELSE IF type = "NOT_YET_AVAILABLE" THEN Rejected("DATE_NOT_AVAILABLE_YET")
  ELSE IF type = "UNKNOWN_SESSION" THEN Rejected(SessionLostError)
  ELSE Rejected("UNKNOWN_ERROR")

\* Mutant: a shadow run goes on to the submit step.
AfterGate_ShadowSubmits(e, args) ==
  IF ~args.shadowMode /\ ~shouldSubmit(e, args)
    THEN Fulfilled(FALSE, "BLOCKED_BY_ALLOW_BOOKING")
    ELSE At("submit")

\* The dead-man switch: a shadow run ends as a success without a submission, a
\* run without the allow flag ends as BLOCKED_BY_ALLOW_BOOKING, else on to submit.
AfterGate(e, args) ==
  IF args.shadowMode THEN Fulfilled(TRUE, "")
  ELSE IF ~shouldSubmit(e, args) THEN Fulfilled(FALSE, "BLOCKED_BY_ALLOW_BOOKING")
  ELSE At("submit")

\* Mutant: a poll that timed out is followed by the click on the date.
AfterPoll_IgnoresTimeout(ok) == At("clickDate")

\* try { await pollForDateUnlock(...) } catch { throw DATE_NOT_AVAILABLE_YET }
AfterPoll(ok) == IF ok THEN At("clickDate") ELSE Rejected("DATE_NOT_AVAILABLE_YET")

\* Where a step that succeeded leads, and the error of one that failed.
StepOutcome(step, ok, e, args) ==
  CASE step = "open" ->
         IF ok THEN At("poll") ELSE Rejected("Could not find calendar iframe")
    [] step = "poll" -> AfterPoll(ok)
    [] step = "clickDate" ->
         IF ok THEN At("dayView") ELSE Rejected("Could not click the date")
    [] step = "dayView" ->
         IF ok THEN At("form") ELSE Rejected("Could not find day view iframe")
    [] step = "form" ->
         IF ok THEN At("slot") ELSE Rejected("Could not find reservation form iframe")
    [] step = "slot" ->
         IF ok THEN AfterGate(e, args) ELSE Rejected("TIME_SLOT_NOT_FOUND")
    [] step = "submit" ->
         IF ok THEN At("result") ELSE Rejected("Submit button not found")
    [] OTHER -> Rejected("Timed out waiting for reservation result frame")

ReserveSteps == {"open", "poll", "clickDate", "dayView", "form", "slot", "submit", "result"}

\* What the step leaves in the telemetry object.  The poll returns a number,
\* so unlockResult.elapsedMs is undefined.
TelemetryAfter(tm, step, ok, after) ==
  IF ~ok THEN tm
  ELSE IF step = "poll" THEN [tm EXCEPT !.unlockMs = "undefined"]
  ELSE IF step = "form" THEN [tm EXCEPT !.formReadyMs = "elapsed"]
  ELSE IF step = "slot" /\ after.pc = "fulfilled" THEN [tm EXCEPT !.submitMs = "elapsed"]
  ELSE IF step = "submit" THEN [tm EXCEPT !.submitMs = "elapsed"]
  ELSE tm

\* What the step leaves in the log: the step, and after the slot selection of
\* a shadow run or a blocked run the line that says no submission was made.
TraceAfter(tr, step, ok, after, args) ==
  LET done == Append(tr, [step |-> step, ok |-> ok]) IN
  IF step = "slot" /\ after.pc = "fulfilled"
    THEN Append(done, [step |-> IF args.shadowMode THEN "wouldSubmit" ELSE "blocked",
                       ok |-> TRUE])
    ELSE done

\* One step of court c's reservePhase; every step can fail.
ReserveStep(c) ==
  /\ runPath = "browser"
  /\ attempts[c].pc \in ReserveSteps
  /\ LET step == attempts[c].pc IN
     \E ok \in BOOLEAN :
       /\ \/ /\ ~(step = "result" /\ ok)
             /\ attempts' = [attempts EXCEPT ![c] = StepOutcome(step, ok, env, ARGS)]
          \/ /\ step = "result" /\ ok
             /\ \E type \in DetectedTypes :
                  attempts' = [attempts EXCEPT ![c] = AfterDetect(type)]
       /\ submissions' = IF step = "submit" /\ ok THEN Append(submissions, c)
                         ELSE submissions
       /\ telemetry' = [telemetry EXCEPT ![c] = TelemetryAfter(@, step, ok, attempts'[c])]
       /\ trace' = [trace EXCEPT ![c] = TraceAfter(@, step, ok, attempts'[c], ARGS)]
  /\ network' = TRUE
  /\ pageUse' = [pageUse EXCEPT ![PageFor(c, runPath, ARGS, targetDate)] = @ \cup {c}]
  /\ UNCHANGED <<starts, serverTimeResult, sessionState, warned, payloads, logins, runPath, ARGS, env, mainPc, now, startedAt, loginOk, t0Time, today,
                 todayReadAt, targetDate, attempted, results, errors, report, exitCode>>

\* ---- main of the API script and reserveCourt ----

\* The remote answers createReservation with one of these messages, with none,
\* or not at all.
ApiMessages ==
  {JsUndefined} \cup {JsString(Render(<<id>>, PlainStyle)) : id \in {1, 2, 6, 8, 5}}

\* Credentials are validated, then waitUntilMidnight() (null at once in test mode).
ApiStart ==
  /\ runPath = "api" /\ mainPc = "start"
  /\ \E credentials \in BOOLEAN :
       IF ~credentials
         THEN mainPc' = "exited" /\ exitCode' = 1 /\ UNCHANGED <<now, t0Time>>
         ELSE /\ mainPc' = "dates"
              /\ UNCHANGED exitCode
              /\ IF ARGS.test
                   THEN UNCHANGED <<now, t0Time>>
                   ELSE \E missed \in 0..MaxMissed :
                          now' = MidnightReturn(now, missed) /\ t0Time' = now'
  /\ UNCHANGED <<starts, trace, telemetry, network, serverTimeResult, sessionState, warned, payloads, logins, pageUse, runPath, ARGS, env, startedAt, loginOk, today, todayReadAt, targetDate,
                 attempted, attempts, results, errors, report, submissions>>

\* const today = ARGS.test && ARGS.targetDate ? parseDateInCR(...) : crMidnight();
\* then reserveCourt is called for every court that is not skipped.
ApiDispatch ==
  /\ runPath = "api" /\ mainPc = "dates"
  /\ today' = IF ARGS.test /\ ARGS.targetDate THEN TestDay ELSE ReadToday(startedAt, now)
  /\ todayReadAt' = now
  /\ targetDate' = [c \in Courts |-> addDaysCR(today', DaysAhead[c])]
  /\ attempted' = ShouldReserveSet(runPath, ARGS, targetDate')
  /\ attempts' = [c \in Courts |-> IF shouldReserve(runPath, ARGS, targetDate', c) THEN At("resolve") ELSE Idle]
  /\ mainPc' = "parallel"
  /\ starts' = [c \in Courts |-> IF shouldReserve(runPath, ARGS, targetDate', c) THEN starts[c] + 1 ELSE starts[c]]
  /\ UNCHANGED <<trace, telemetry, network, serverTimeResult, sessionState, warned, payloads, logins, pageUse, runPath, ARGS, env, now, startedAt, loginOk, t0Time, results, errors,
                 report, exitCode, submissions>>

\* reserveCourt: resolveScheduleId, then createReservation and classifyMessage;
\* whatever is thrown is caught and returned as an UNKNOWN outcome.
ReserveCourtStep(c) ==
  /\ runPath = "api"
  /\ \/ /\ attempts[c].pc = "resolve"
        /\ \E ok \in BOOLEAN :
             attempts' = [attempts EXCEPT ![c] =
               IF ok THEN At("call") ELSE Fulfilled(FALSE, "UNKNOWN")]
        /\ UNCHANGED <<submissions, payloads>>
     \/ /\ attempts[c].pc = "call"
        /\ submissions' = Append(submissions, c)
        /\ \/ /\ attempts' = [attempts EXCEPT ![c] = Fulfilled(FALSE, "UNKNOWN")]
              /\ UNCHANGED payloads
           \/ \E flag \in PosterResults, m \in ApiMessages :
                /\ payloads' = [payloads EXCEPT ![c] = Poster(flag, m)]
                /\ attempts' = [attempts EXCEPT ![c] =
                                  OutcomeOfResult(parseJSONPResponse(payloads'[c]))]
  /\ trace' = [trace EXCEPT ![c] = Append(@, [step |-> attempts[c].pc, ok |-> TRUE])]
  /\ network' = (network \/ attempts[c].pc = "call")
  /\ UNCHANGED <<starts, telemetry, serverTimeResult, sessionState, warned, logins, pageUse, runPath, ARGS, env, mainPc, now, startedAt, loginOk, t0Time, today,
                 todayReadAt, targetDate, attempted, results, errors, report, exitCode>>

RECURSIVE OutcomesOf(_, _)
OutcomesOf(cs, k) ==
  IF k > 2 THEN <<>>
  ELSE (IF k \in cs
          THEN <<[court |-> k, success |-> attempts[k].success, error |-> attempts[k].error]>>
          ELSE <<>>) \o OutcomesOf(cs, k + 1)

\* const results = await Promise.all(reservationPromises); the notification;
\* process.exit(allSuccess ? 0 : 1).
ApiDone ==
  /\ runPath = "api" /\ mainPc = "parallel"
  /\ \A c \in attempted : Settled(attempts[c])
  /\ results' = OutcomesOf(attempted, 1)
  /\ report' = [kind |-> "summary", results |-> results', errors |-> <<>>]
  /\ exitCode' = IF \A i \in DOMAIN results' : results'[i].error = "SUCCESS" THEN 0 ELSE 1
  /\ mainPc' = "exited"
  /\ UNCHANGED <<starts, trace, telemetry, network, serverTimeResult, sessionState, warned, payloads, logins, pageUse, runPath, ARGS, env, now, startedAt, loginOk, t0Time, today, todayReadAt,
                 targetDate, attempted, attempts, errors, submissions>>

RunNext ==
  /\ \/ Start
     \/ PreLoginWait
     \/ Login
     \/ MidnightWait
     \/ TargetDates
     \/ Page2
     \/ ParallelDone
     \/ Court1Start
     \/ Court1Done
     \/ Court2Start
     \/ Court2Done
     \/ Summary
     \/ Fatal
     \/ \E c \in Courts : ReserveStep(c)
     \/ ApiStart
     \/ ApiDispatch
     \/ \E c \in Courts : ReserveCourtStep(c)
     \/ ApiDone
  /\ UNCHANGED <<clsVars, parVars, pollVars, waitVars, repVars, schVars, selVars, detVars, preVars, hintVars, sessVars>>

\* ---- Claims about the run ----

Exited == mainPc = "exited"

InitialAuthPassed == (runPath = "browser" /\ loginOk = "ok") \/ (runPath = "api" /\ mainPc # "start")

ReportedOutcomes == report.results \o report.errors

OutcomesFor(c) == {i \in DOMAIN ReportedOutcomes : ReportedOutcomes[i].court = c}

\* C2: a run whose initial authentication succeeded and that set out to
\* reserve some courts ends with a summary report holding exactly one outcome
\* for each of those courts, whatever failed on the way.
C2_OneOutcomePerAttempted ==
  (Exited /\ InitialAuthPassed /\ attempted # {}) =>
    /\ report.kind = "summary"
    /\ \A c \in attempted : Cardinality(OutcomesFor(c)) = 1
    /\ Len(ReportedOutcomes) = Cardinality(attempted)

\* The run that shows C2 failing: contexts mode, Court 1's attempt has settled,
\* Court 2's login failed, and the run ended with the fatal report.
C2_Court1OutcomeLost ==
  /\ Exited
  /\ runPath = "browser" /\ ARGS.sessionMode = "contexts"
  /\ Settled(attempts[1])
  /\ attempts[2].pc = "idle"
  /\ report.kind = "fatal"

AllowFlagPresent == env.ALLOW_BOOKING \/ env.allowFile

\* C3: every submission that was issued to the remote system, by the submit
\* click of reservePhase or by createReservation of reserveCourt, was issued
\* with the allow flag present.
C3_SubmitOnlyWhenAllowed == Len(submissions) > 0 => AllowFlagPresent

\* The half of C3 that holds: the browser path submits only with the flag.
C3_BrowserGated == (runPath = "browser" /\ Len(submissions) > 0) => AllowFlagPresent

\* The run that shows C3 failing: the API script issued createReservation with
\* neither ALLOW_BOOKING=1 nor the sentinel file.
C3_ApiSubmitsUngated ==
  /\ runPath = "api"
  /\ Len(submissions) > 0
  /\ ~AllowFlagPresent

\* C4: when the initial login has failed no attempt is ever started and no
\* submission is issued, main is on its way out through the fatal handler, and
\* when it has exited the report is the error report and the exit status is 1.
C4_LoginFailureIsFatal ==
  loginOk = "failed" =>
    /\ \A c \in Courts : attempts[c].pc = "idle"
    /\ attempted = {}
    /\ submissions = <<>>
    /\ mainPc \in {"fatal", "exited"}
    /\ Exited => report.kind = "fatal" /\ exitCode = 1

\* The initial login failed and the run has ended.
C4_Witness == loginOk = "failed" /\ Exited /\ ~ARGS.test /\ ~ARGS.dryRun /\ AllowFlagPresent

\* C6: in production mode every attempt that was started carries a target date
\* computed from a today that was read after the midnight wait had returned:
\* the day on which the wait returned plus the court's days ahead.
C6_DatesAfterUnlock ==
  \A c \in Courts :
    (~ARGS.test /\ attempts[c].pc # "idle") =>
      /\ t0Time # -1
      /\ todayReadAt >= t0Time
      /\ today = crDay(t0Time)
      /\ targetDate[c] = crDay(t0Time) + DaysAhead[c]

\* A production run that started on the day before the unlock instant and has
\* started its attempts, on either path.
C6_Witness ==
  /\ ~ARGS.test
  /\ crDay(startedAt) < crDay(t0Time)
  /\ \E c \in Courts : attempts[c].pc \notin {"idle", "open", "resolve"}

\* How many times court c occurs in a sequence of courts.
RECURSIVE CountOf(_, _)
CountOf(seq, c) ==
  IF seq = <<>> THEN 0
  ELSE (IF Head(seq) = c THEN 1 ELSE 0) + CountOf(Tail(seq), c)

AtMostOnce ==
  \A c \in Courts : starts[c] <= 1 /\ CountOf(submissions, c) <= 1

NothingAfterOutcome ==
  \A c \in Courts :
    Settled(attempts[c]) =>
      /\ attempts'[c] = attempts[c]
      /\ starts'[c] = starts[c]
      /\ CountOf(submissions', c) = CountOf(submissions, c)

\* C14: within one run each court is submitted to the remote system at most
\* once and at most one attempt is started for it, and once the attempt of a
\* court has ended, with whatever outcome, no step starts a second attempt or
\* issues a second submission for that court.
C14_AtMostOneSubmission == [](AtMostOnce) /\ [][NothingAfterOutcome]_vars

\* A run that ended after the one submission of a court was refused.
C14_Witness ==
  /\ Exited
  /\ \E c \in Courts :
       /\ CountOf(submissions, c) = 1
       /\ attempts[c].pc = "rejected"
       /\ attempts[c].error \in {"SLOT_TAKEN", "UNKNOWN_ERROR"}

\* The steps of one attempt in the order reservePhase writes them.
StepOrder == <<"open", "poll", "clickDate", "dayView", "form", "slot", "submit", "result">>

StepsOf(c) == [i \in DOMAIN trace[c] |-> trace[c][i].step]

Carried(c, step) == \E i \in DOMAIN trace[c] : trace[c][i].step = step

Succeeded(c, step) == \E i \in DOMAIN trace[c] : trace[c][i].step = step /\ trace[c][i].ok

\* The steps court c carried out are a prefix of the order, up to the line
\* that stands in for the submit step of a run that does not submit.
InOrder(c) ==
  \A i \in DOMAIN trace[c] :
    /\ i <= Len(StepOrder)
    /\ \/ trace[c][i].step = StepOrder[i]
       \/ i = 7 /\ trace[c][i].step \in {"wouldSubmit", "blocked"} /\ Len(trace[c]) = 7

\* C15: in the browser path the steps of one attempt happen in the order
\* poll for the unlock, click the date, open the form, select the slot,
\* submit, await the result: the date is clicked only after the poll
\* succeeded, the submit is issued only after the slot selection succeeded,
\* and a step that failed is the last step of the attempt, which is rejected.
C15_StepsInOrder ==
  runPath = "browser" =>
    \A c \in Courts :
      /\ InOrder(c)
      /\ Carried(c, "clickDate") => Succeeded(c, "poll")
      /\ Carried(c, "submit") => Succeeded(c, "slot")
      /\ \A i \in DOMAIN trace[c] :
           ~trace[c][i].ok => i = Len(trace[c]) /\ attempts[c].pc = "rejected"

\* One attempt ended at the poll that timed out and another went through
\* every step to the result.
C15_Witness ==
  /\ runPath = "browser"
  /\ \E c \in Courts :
       /\ Len(trace[c]) = 2 /\ ~trace[c][2].ok /\ attempts[c].pc = "rejected"
  /\ \E c \in Courts : StepsOf(c) = StepOrder /\ Settled(attempts[c])

\* C16: in shadow mode no attempt issues the remote submission; an attempt
\* that was not stopped by a failing step ran every step through the slot
\* selection, did not carry out the submit step, and ended as a record whose
\* telemetry holds the time at which it would have submitted.
C16_ShadowWithholdsSubmit ==
  (runPath = "browser" /\ ARGS.shadowMode) =>
    /\ submissions = <<>>
    /\ \A c \in Courts :
         /\ ~Carried(c, "submit")
         /\ Succeeded(c, "slot") =>
              /\ attempts[c] = Fulfilled(TRUE, "")
              /\ StepsOf(c) = SubSeq(StepOrder, 1, 6) \o <<"wouldSubmit">>
              /\ telemetry[c].submitMs = "elapsed"
         /\ attempts[c].pc = "fulfilled" => Succeeded(c, "slot")

\* A shadow run in which a court selected its slot, with the allow flag set.
C16_Witness ==
  /\ runPath = "browser" /\ ARGS.shadowMode /\ AllowFlagPresent
  /\ \E c \in Courts : Succeeded(c, "slot") /\ attempts[c].pc = "fulfilled"

\* The metadata request gave no usable server time.
ServerTimeUnavailable(outcome) ==
  outcome.rejected \/ ~outcome.date.present \/ ~outcome.date.parsable

\* C17 as stated: whatever the metadata request gave (a network error, no
\* server time, an unparsable server time) the skew is zero and the run goes
\* on to the wait before the login; with a server time the skew is the
\* server time minus the local time.
C17_SkewNeverFatal ==
  serverTimeResult.called =>
    /\ mainPc = "preLogin"
    /\ ServerTimeUnavailable(serverTimeResult.outcome) =>
         serverTimeResult.skewMs = Num(0)
    /\ ~ServerTimeUnavailable(serverTimeResult.outcome) =>
         serverTimeResult.skewMs =
           Num(serverTimeResult.outcome.date.time - serverTimeResult.localTime.time)

\* The same for every outcome but the unparsable server time.
C17_ExceptUnparsable ==
  (serverTimeResult.called /\ serverTimeResult.outcome.date \in {NoHeader} \cup
     {StampHeader(now + d) : d \in ServerOffsets}) =>
    /\ mainPc = "preLogin"
    /\ ServerTimeUnavailable(serverTimeResult.outcome) =>
         serverTimeResult.skewMs = Num(0)
    /\ ~ServerTimeUnavailable(serverTimeResult.outcome) =>
         serverTimeResult.skewMs =
           Num(serverTimeResult.outcome.date.time - serverTimeResult.localTime.time)

\* The run that dies of the unparsable server time: NaN skew and the fatal path.
C17_UnparsableIsFatal ==
  /\ serverTimeResult.called
  /\ serverTimeResult.outcome.date = GarbageHeader
  /\ serverTimeResult.skewMs = NaN
  /\ mainPc = "fatal"

\* The run came to its end other than by a usage error or the fatal path.
Completed ==
  /\ Exited
  /\ report.kind # "fatal"
  /\ report = NoReport => exitCode = 0

NothingNeeded == ShouldReserveSet(runPath, ARGS, targetDate) = {}

\* C19 as stated: a run ends without handing a report to the reporting
\* collaborator exactly when no court needed action in that run, and a run
\* that ends so has made no remote request: not the server time check, not
\* the login, no other request.
C19_SilentIffNothingNeeded ==
  Completed =>
    /\ (report = NoReport) <=> NothingNeeded
    /\ report = NoReport => ~network

\* A production run of the orchestrator with both courts skipped: it ends
\* without a report, after the server time check and the login.
C19_SilentAfterLogin ==
  /\ runPath = "browser" /\ Completed /\ ~ARGS.test /\ NothingNeeded
  /\ report = NoReport /\ network /\ loginOk = "ok"

\* A dry run of the orchestrator ends without a report although courts
\* needed action.
C19_DryRunSilent ==
  /\ runPath = "browser" /\ Completed /\ ARGS.dryRun /\ ~NothingNeeded
  /\ report = NoReport

\* A run of the API script with both courts skipped hands over a report.
C19_ApiReportsNothing ==
  /\ runPath = "api" /\ Completed /\ NothingNeeded
  /\ report # NoReport /\ report.results = <<>>

\* The attempt of court c ended with an error that signals the lost session.
AuthLoss(c) == attempts[c].pc = "rejected" /\ attempts[c].error \in AuthTexts

FallbackRecordedFor(c) ==
  \E i \in DOMAIN sessionState.fallbackEvents : sessionState.fallbackEvents[i].court = c

\* C20 as stated: when the attempt of a court ended with an auth-loss signal,
\* by the end of the run the session state holds a fallback event that names
\* the court and the reason, the attempt was not started again and the session
\* mode is the one the run began with.
C20_FallbackRecorded ==
  \A c \in Courts :
    (runPath = "browser" /\ Exited /\ AuthLoss(c)) =>
      /\ FallbackRecordedFor(c)
      /\ sessionState.fallbackApplied
      /\ starts[c] = 1
      /\ sessionState.mode = ARGS.sessionMode

\* The part that holds: no second attempt, no second submission, the same mode.
C20_NoRetryNoSwitch ==
  \A c \in Courts :
    (runPath = "browser" /\ AuthLoss(c)) =>
      /\ starts[c] = 1
      /\ CountOf(submissions, c) = 1
      /\ sessionState.mode = ARGS.sessionMode

\* The run that only logged the warning: the auth loss of a court was seen
\* after the parallel attempts and the session state holds no event.
C20_WarnedOnly ==
  /\ runPath = "browser" /\ Exited /\ warned
  /\ \E c \in Courts : AuthLoss(c)
  /\ sessionState.fallbackEvents = <<>> /\ ~sessionState.fallbackApplied

\* In the sequential branch the auth loss is not even looked for.
C20_SequentialUnnoticed ==
  /\ runPath = "browser" /\ Exited /\ ~warned
  /\ \E c \in Courts : AuthLoss(c)

\* No attempt of the run has ended while the attempt of another court was
\* still to be started.
NoneEndedBeforeOtherStarted ==
  \A c, d \in Courts :
    (c # d /\ Settled(attempts[c])) => starts[d] >= 1

\* C21 as stated: in every run with two attempted courts, in the shared
\* session and with separate sessions alike, the second attempt is started
\* before the first one has finished.
C21_DispatchedConcurrently ==
  attempted = Courts => NoneEndedBeforeOtherStarted

\* The part that holds: the shared session and the API script start both
\* attempts before either has finished.
C21_SharedSessionConcurrent ==
  (attempted = Courts /\ (runPath = "api" \/ ARGS.sessionMode = "single")) =>
    NoneEndedBeforeOtherStarted

\* With separate sessions Court 1's attempt has ended, with two courts to
\* reserve, and Court 2's attempt is still to be started.
C21_SequentialWithContexts ==
  /\ runPath = "browser" /\ ARGS.sessionMode = "contexts" /\ attempted = Courts
  /\ Settled(attempts[1]) /\ starts[2] = 0

\* The login of a production run ended on a later day than main started: the
\* unlock instant, the midnight after the start, has passed.
LoginEndedAfterInstant ==
  /\ runPath = "browser" /\ mainPc = "midnightWait" /\ ~ARGS.test
  /\ crDay(now) > crDay(startedAt)

\* C22 as stated: when the login ends after the unlock instant has passed, the
\* orchestrator goes on at once, its clock where the login left it, and does
\* not wait for the unlock instant of the following day.
C22_LateLoginGoesOn ==
  [][LoginEndedAfterInstant => (now' = now /\ mainPc' = "dates")]_vars

\* The courts the summary lists under a heading of confirmed bookings.
ListedAsConfirmed ==
  IF report.kind = "summary" /\ ResultsHeading(ARGS) = "REAL BOOKINGS CONFIRMED"
    THEN {report.results[i].court : i \in DOMAIN report.results}
    ELSE {}

\* The attempt of court c was submitted and its response classified SUCCESS.
SubmittedAndSucceeded(c) ==
  CountOf(submissions, c) = 1 /\ attempts[c] = Fulfilled(TRUE, "")

\* The submission of court c was withheld by the dead-man switch.
Withheld(c) == attempts[c] = Fulfilled(FALSE, "BLOCKED_BY_ALLOW_BOOKING")

\* C23 as stated: the summary lists and counts a court as a confirmed booking
\* only if its submission was issued and classified SUCCESS; a court whose
\* submission the dead-man switch withheld is not among the confirmed, is not
\* counted in the subject, and the run exits with a status other than zero.
C23_ConfirmedOnlyIfBooked ==
  (runPath = "browser" /\ Exited /\ report.kind = "summary") =>
    /\ \A c \in ListedAsConfirmed : SubmittedAndSucceeded(c)
    /\ ResultsHeading(ARGS) = "REAL BOOKINGS CONFIRMED" =>
         SubjectOf(report.results, report.errors).count =
           Cardinality({c \in Courts : SubmittedAndSucceeded(c)})
    /\ \A c \in Courts : Withheld(c) => exitCode # 0

\* A production run without the allow flag: the withheld court stands under
\* the confirmed bookings, the subject counts it and the exit status is zero.
C23_WithheldListedConfirmed ==
  /\ runPath = "browser" /\ Exited /\ report.kind = "summary" /\ ~ARGS.test
  /\ \E c \in ListedAsConfirmed : Withheld(c)
  /\ SubjectOf(report.results, report.errors).text = "Reservations Confirmed"
  /\ submissions = <<>>
  /\ exitCode = 0

\* The part that holds with the allow flag present.
C23_HoldsWithAllowFlag ==
  (runPath = "browser" /\ Exited /\ report.kind = "summary" /\ AllowFlagPresent
     /\ ~ARGS.noBooking) =>
    \A c \in ListedAsConfirmed : SubmittedAndSucceeded(c)

\* C24 as stated: on the API path the outcome of an attempt is SUCCESS only
\* if the payload it received carries the success flag 1, whatever the text
\* of its message.
C24_SuccessOnlyWithFlag ==
  \A c \in Courts :
    (runPath = "api" /\ attempts[c].pc = "fulfilled" /\ attempts[c].error = "SUCCESS") =>
      payloads[c].received /\ payloads[c].result = 1

\* The payload carried the flag 0 and the words of a success, and the report
\* of the run holds SUCCESS for the court.
C24_SuccessWithoutFlag ==
  /\ runPath = "api" /\ Exited
  /\ \E i \in DOMAIN report.results :
       /\ report.results[i].error = "SUCCESS"
       /\ payloads[report.results[i].court].result = 0

OverrideGiven == ARGS.test /\ ARGS.targetDate

\* C25 as stated: with a target date override, on both orchestrators the date
\* every started attempt is given is the override date, for every court.
C25_OverrideIsTheDate ==
  \A c \in Courts :
    (OverrideGiven /\ attempts[c].pc # "idle") => targetDate[c] = TestDay

\* The part that holds: the browser orchestrator gives both attempts the
\* override date.
C25_BrowserCarriesOverride ==
  \A c \in Courts :
    (runPath = "browser" /\ OverrideGiven /\ attempts[c].pc # "idle") =>
      targetDate[c] = TestDay

\* The API script takes the override for today and adds the days ahead of each
\* court: the requests carry two different dates, neither the override.
C25_ApiAddsDaysAhead ==
  /\ runPath = "api" /\ OverrideGiven
  /\ \A c \in Courts :
       /\ CountOf(submissions, c) = 1
       /\ targetDate[c] = TestDay + DaysAhead[c]

\* C27 as stated: every login of a run is performed during pre-authentication,
\* before the wait for the unlock instant has returned and before any attempt
\* has been started, in both session modes.
C27_LoginsBeforeUnlock ==
  runPath = "browser" =>
    \A i \in DOMAIN logins : ~logins[i].afterWait /\ logins[i].started = 0

\* The part that holds: in the shared session the only login is the one of
\* pre-authentication.
C27_SharedSessionOneLogin ==
  (runPath = "browser" /\ ARGS.sessionMode = "single") =>
    /\ Len(logins) <= 1
    /\ \A i \in DOMAIN logins : ~logins[i].afterWait /\ logins[i].started = 0

\* With separate sessions the login for Court 2 follows the unlock instant
\* and the end of Court 1's attempt in a production run.
C27_SecondLoginAfterUnlock ==
  /\ runPath = "browser" /\ ~ARGS.test /\ ARGS.sessionMode = "contexts"
  /\ Len(logins) = 2
  /\ logins[2].session = 2 /\ logins[2].afterWait /\ logins[2].started = 1
  /\ t0Time # -1 /\ now >= t0Time
  /\ Settled(attempts[1])

\* Both courts run in the parallel branch on the one session.
SharedMode ==
  runPath = "browser" /\ ARGS.sessionMode = "single" /\ attempted = Courts

\* browser.close() in the finally of main has run.
ContextClosed == mainPc = "exited"

\* C32: in shared mode the concurrent attempts use the one authenticated
\* context, each on a page of its own: no page is operated on by two attempts,
\* no attempt uses a page of another context, and the context is closed, by
\* main, only when no attempt is still under way.
C32_OwnPageEach ==
  SharedMode =>
    /\ \A p \in Pages : Cardinality(pageUse[p]) <= 1
    /\ \A c \in Courts : \A p \in Pages : c \in pageUse[p] => p = PageFor(c, runPath, ARGS, targetDate)
    /\ pageUse["context2Page"] = {}
    /\ ContextClosed => \A c \in Courts : attempts[c].pc \notin ReserveSteps

\* Both attempts are under way at once, Court 1 on the login page and Court 2
\* on the second page of the same context.
C32_BothUnderWay ==
  /\ SharedMode
  /\ pageUse["loginPage"] = {1}
  /\ pageUse["loginPage2"] = {2}
  /\ \A c \in Courts : attempts[c].pc \in ReserveSteps

\* Court c has a time window for its target date and its skip flag is not set.
SkipFlag(c) == IF c = 1 THEN ARGS.skipCourt1 ELSE ARGS.skipCourt2

Eligible(c) ==
  ~SkipFlag(c) /\ TimeSlotOf(runPath, ARGS, targetDate, c) # NoTimeSlot

\* reservePhase or reserveCourt was called for court c.
Attempted(c) == starts[c] > 0

\* Nothing was done for court c: no resolution, navigation or remote call, no
\* page and no session of its own, no entry in the report.
Untouched(c) ==
  /\ attempts[c] = Idle
  /\ trace[c] = <<>>
  /\ payloads[c] = NoPayload
  /\ CountOf(submissions, c) = 0
  /\ \A p \in Pages : c \notin pageUse[p]
  /\ c = 2 => \A i \in DOMAIN logins : logins[i].session # 2
  /\ \A i \in DOMAIN results : results[i].court # c
  /\ \A i \in DOMAIN errors : errors[i].court # c
  /\ OutcomesFor(c) = {}

\* A step of court c's own attempt.
AttemptStep(c) == attempts[c].pc \notin {"idle", "fulfilled", "rejected"} /\ attempts'[c] # attempts[c]

C33_DryRunAttemptsNothing ==
  /\ Exited /\ ARGS.dryRun /\ loginOk = "ok"
  /\ Eligible(1) /\ ~Attempted(1)

\* ------------------------------------------------------------------------
\* classifyMessage called again and again
\* ------------------------------------------------------------------------

MaxCalls == 3

\* The raw responses of the repeated calls: none, a success, a refusal with
\* and without a days hint, a text of two rules, and an unknown text.
RepeatMessages ==
  {JsUndefined,
   JsString(Render(<<1>>, PlainStyle)),
   JsString(Render(<<2, 4, 5>>, PlainStyle)),
   JsString(Render(<<3, 4>>, [upper |-> TRUE, decomposed |-> FALSE, ws |-> <<" ", " ">>])),
   JsString(Render(<<2, 6>>, PlainStyle)),
   JsString(Render(<<5>>, PlainStyle))}

\* Mutant: patterns that keep their place between calls (the g flag), so that
\* every second call finds nothing in its text.
CallResult_KeepsPlace(earlier, m) ==
  IF Len(earlier) % 2 = 1 THEN classifyMessage(JsString(<<"x">>)) ELSE classifyMessage(m)

\* A call of classifyMessage: its patterns are regular expression literals
\* without flags and it reads nothing but its argument.
CallResult(earlier, m) == classifyMessage(m)

RepIdle == history = <<>>

RepInit == history = <<>>

ClassifyAgain ==
  /\ Len(history) < MaxCalls
  /\ \E m \in RepeatMessages :
       history' = Append(history, [message |-> m, outcome |-> CallResult(history, m)])

RepNext == ClassifyAgain /\ UNCHANGED <<clsVars, parVars, pollVars, waitVars, runVars, schVars, selVars, detVars, preVars, hintVars, sessVars>>

\* ---- Claims about repeated calls ----

COURT1_SCHEDULE_IDS ==
  "Monday" :> (
            "06:00 AM - 07:00 AM" :> "239"
         @@ "07:00 AM - 08:00 AM" :> "246"
         @@ "08:00 AM - 09:00 AM" :> "253"
         @@ "09:00 AM - 10:00 AM" :> "260"
         @@ "10:00 AM - 11:00 AM" :> "267"
         @@ "11:00 AM - 12:00 PM" :> "274"
         @@ "12:00 PM - 01:00 PM" :> "281"
         @@ "01:00 PM - 02:00 PM" :> "288"
         @@ "02:00 PM - 03:00 PM" :> "295"
         @@ "03:00 PM - 04:00 PM" :> "302"
         @@ "04:00 PM - 05:00 PM" :> "309"
         @@ "05:00 PM - 06:00 PM" :> "316"
         @@ "06:00 PM - 07:00 PM" :> "323")
  @@ "Tuesday" :> (
            "06:00 AM - 07:00 AM" :> "240"
         @@ "07:00 AM - 08:00 AM" :> "247"
         @@ "08:00 AM - 09:00 AM" :> "254"
         @@ "09:00 AM - 10:00 AM" :> "261"
         @@ "10:00 AM - 11:00 AM" :> "268"
         @@ "11:00 AM - 12:00 PM" :> "275"
         @@ "12:00 PM - 01:00 PM" :> "282"
         @@ "01:00 PM - 02:00 PM" :> "289"
         @@ "02:00 PM - 03:00 PM" :> "296"
         @@ "03:00 PM - 04:00 PM" :> "303"
         @@ "04:00 PM - 05:00 PM" :> "310"
         @@ "05:00 PM - 06:00 PM" :> "317"
         @@ "06:00 PM - 07:00 PM" :> "324")
  @@ "Wednesday" :> (
            "06:00 AM - 07:00 AM" :> "241"
         @@ "07:00 AM - 08:00 AM" :> "248"
         @@ "08:00 AM - 09:00 AM" :> "255"
         @@ "09:00 AM - 10:00 AM" :> "262"
         @@ "10:00 AM - 11:00 AM" :> "269"
         @@ "11:00 AM - 12:00 PM" :> "276"
         @@ "12:00 PM - 01:00 PM" :> "283"
         @@ "01:00 PM - 02:00 PM" :> "290"
         @@ "02:00 PM - 03:00 PM" :> "297"
         @@ "03:00 PM - 04:00 PM" :> "304"
         @@ "04:00 PM - 05:00 PM" :> "311"
         @@ "05:00 PM - 06:00 PM" :> "318"
         @@ "06:00 PM - 07:00 PM" :> "325")
  @@ "Thursday" :> (
            "06:00 AM - 07:00 AM" :> "242"
         @@ "07:00 AM - 08:00 AM" :> "249"
         @@ "08:00 AM - 09:00 AM" :> "256"
         @@ "09:00 AM - 10:00 AM" :> "263"
         @@ "10:00 AM - 11:00 AM" :> "270"
         @@ "11:00 AM - 12:00 PM" :> "277"
         @@ "12:00 PM - 01:00 PM" :> "284"
         @@ "01:00 PM - 02:00 PM" :> "291"
         @@ "02:00 PM - 03:00 PM" :> "298"
         @@ "03:00 PM - 04:00 PM" :> "305"
         @@ "04:00 PM - 05:00 PM" :> "312"
         @@ "05:00 PM - 06:00 PM" :> "319"
         @@ "06:00 PM - 07:00 PM" :> "326")
  @@ "Friday" :> (
            "06:00 AM - 07:00 AM" :> "243"
         @@ "07:00 AM - 08:00 AM" :> "250"
         @@ "08:00 AM - 09:00 AM" :> "257"
         @@ "09:00 AM - 10:00 AM" :> "264"
         @@ "10:00 AM - 11:00 AM" :> "271"
         @@ "11:00 AM - 12:00 PM" :> "278"
         @@ "12:00 PM - 01:00 PM" :> "285"
         @@ "01:00 PM - 02:00 PM" :> "292"
         @@ "02:00 PM - 03:00 PM" :> "299"
         @@ "03:00 PM - 04:00 PM" :> "306"
         @@ "04:00 PM - 05:00 PM" :> "313"
         @@ "05:00 PM - 06:00 PM" :> "320"
         @@ "06:00 PM - 07:00 PM" :> "327")
  @@ "Saturday" :> (
            "06:00 AM - 07:00 AM" :> "244"
         @@ "07:00 AM - 08:00 AM" :> "251"
         @@ "08:00 AM - 09:00 AM" :> "258"
         @@ "09:00 AM - 10:00 AM" :> "265"
         @@ "10:00 AM - 11:00 AM" :> "272"
         @@ "11:00 AM - 12:00 PM" :> "279"
         @@ "12:00 PM - 01:00 PM" :> "286"
         @@ "01:00 PM - 02:00 PM" :> "293"
         @@ "02:00 PM - 03:00 PM" :> "300"
         @@ "03:00 PM - 04:00 PM" :> "307"
         @@ "04:00 PM - 05:00 PM" :> "314"
         @@ "05:00 PM - 06:00 PM" :> "321"
         @@ "06:00 PM - 07:00 PM" :> "328")
  @@ "Sunday" :> (
            "06:00 AM - 07:00 AM" :> "245"
         @@ "07:00 AM - 08:00 AM" :> "252"
         @@ "08:00 AM - 09:00 AM" :> "259"
         @@ "09:00 AM - 10:00 AM" :> "266"
         @@ "10:00 AM - 11:00 AM" :> "273"
         @@ "11:00 AM - 12:00 PM" :> "280"
         @@ "12:00 PM - 01:00 PM" :> "287"
         @@ "01:00 PM - 02:00 PM" :> "294"
         @@ "02:00 PM - 03:00 PM" :> "301"
         @@ "03:00 PM - 04:00 PM" :> "308"
         @@ "04:00 PM - 05:00 PM" :> "315"
         @@ "05:00 PM - 06:00 PM" :> "322"
         @@ "06:00 PM - 07:00 PM" :> "329")

\* Mutant: the second table is a copy of the first.
COURT2_SCHEDULE_IDS_Copied == COURT1_SCHEDULE_IDS

\* export const COURT2_SCHEDULE_IDS: ScheduleMapping
COURT2_SCHEDULE_IDS ==
  "Monday" :> (
            "06:00 AM - 07:00 AM" :> "337"
         @@ "07:00 AM - 08:00 AM" :> "344"
         @@ "08:00 AM - 09:00 AM" :> "351"
         @@ "09:00 AM - 10:00 AM" :> "358"
         @@ "10:00 AM - 11:00 AM" :> "365"
         @@ "11:00 AM - 12:00 PM" :> "372"
         @@ "12:00 PM - 01:00 PM" :> "379"
         @@ "01:00 PM - 02:00 PM" :> "386"
         @@ "02:00 PM - 03:00 PM" :> "393"
         @@ "03:00 PM - 04:00 PM" :> "400"
         @@ "04:00 PM - 05:00 PM" :> "407"
         @@ "05:00 PM - 06:00 PM" :> "1141"
         @@ "06:00 PM - 07:00 PM" :> "414")
  @@ "Tuesday" :> (
            "06:00 AM - 07:00 AM" :> "338"
         @@ "07:00 AM - 08:00 AM" :> "345"
         @@ "08:00 AM - 09:00 AM" :> "352"
         @@ "09:00 AM - 10:00 AM" :> "359"
         @@ "10:00 AM - 11:00 AM" :> "366"
         @@ "11:00 AM - 12:00 PM" :> "373"
         @@ "12:00 PM - 01:00 PM" :> "380"
         @@ "01:00 PM - 02:00 PM" :> "387"
         @@ "02:00 PM - 03:00 PM" :> "394"
         @@ "03:00 PM - 04:00 PM" :> "401"
         @@ "04:00 PM - 05:00 PM" :> "408"
         @@ "05:00 PM - 06:00 PM" :> "1142"
         @@ "06:00 PM - 07:00 PM" :> "415")
  @@ "Wednesday" :> (
            "06:00 AM - 07:00 AM" :> "339"
         @@ "07:00 AM - 08:00 AM" :> "346"
         @@ "08:00 AM - 09:00 AM" :> "353"
         @@ "09:00 AM - 10:00 AM" :> "360"
         @@ "10:00 AM - 11:00 AM" :> "367"
         @@ "11:00 AM - 12:00 PM" :> "374"
         @@ "12:00 PM - 01:00 PM" :> "381"
         @@ "01:00 PM - 02:00 PM" :> "388"
         @@ "02:00 PM - 03:00 PM" :> "395"
         @@ "03:00 PM - 04:00 PM" :> "402"
         @@ "04:00 PM - 05:00 PM" :> "409"
         @@ "05:00 PM - 06:00 PM" :> "1143"
         @@ "06:00 PM - 07:00 PM" :> "416")
  @@ "Thursday" :> (
            "06:00 AM - 07:00 AM" :> "340"
         @@ "07:00 AM - 08:00 AM" :> "347"
         @@ "08:00 AM - 09:00 AM" :> "354"
         @@ "09:00 AM - 10:00 AM" :> "361"
         @@ "10:00 AM - 11:00 AM" :> "368"
         @@ "11:00 AM - 12:00 PM" :> "375"
         @@ "12:00 PM - 01:00 PM" :> "382"
         @@ "01:00 PM - 02:00 PM" :> "389"
         @@ "02:00 PM - 03:00 PM" :> "396"
         @@ "03:00 PM - 04:00 PM" :> "403"
         @@ "04:00 PM - 05:00 PM" :> "410"
         @@ "05:00 PM - 06:00 PM" :> "1144"
         @@ "06:00 PM - 07:00 PM" :> "417")
  @@ "Friday" :> (
            "06:00 AM - 07:00 AM" :> "341"
         @@ "07:00 AM - 08:00 AM" :> "348"
         @@ "08:00 AM - 09:00 AM" :> "355"
         @@ "09:00 AM - 10:00 AM" :> "362"
         @@ "10:00 AM - 11:00 AM" :> "369"
         @@ "11:00 AM - 12:00 PM" :> "376"
         @@ "12:00 PM - 01:00 PM" :> "383"
         @@ "01:00 PM - 02:00 PM" :> "390"
         @@ "02:00 PM - 03:00 PM" :> "397"
         @@ "03:00 PM - 04:00 PM" :> "404"
         @@ "04:00 PM - 05:00 PM" :> "411"
         @@ "05:00 PM - 06:00 PM" :> "1145"
         @@ "06:00 PM - 07:00 PM" :> "418")
  @@ "Saturday" :> (
            "06:00 AM - 07:00 AM" :> "342"
         @@ "07:00 AM - 08:00 AM" :> "349"
         @@ "08:00 AM - 09:00 AM" :> "356"
         @@ "09:00 AM - 10:00 AM" :> "363"
         @@ "10:00 AM - 11:00 AM" :> "370"
         @@ "11:00 AM - 12:00 PM" :> "377"
         @@ "12:00 PM - 01:00 PM" :> "384"
         @@ "01:00 PM - 02:00 PM" :> "391"
         @@ "02:00 PM - 03:00 PM" :> "398"
         @@ "03:00 PM - 04:00 PM" :> "405"
         @@ "04:00 PM - 05:00 PM" :> "412"
         @@ "05:00 PM - 06:00 PM" :> "1146"
         @@ "06:00 PM - 07:00 PM" :> "419")
  @@ "Sunday" :> (
            "06:00 AM - 07:00 AM" :> "343"
         @@ "07:00 AM - 08:00 AM" :> "350"
         @@ "08:00 AM - 09:00 AM" :> "357"
         @@ "09:00 AM - 10:00 AM" :> "364"
         @@ "10:00 AM - 11:00 AM" :> "371"
         @@ "11:00 AM - 12:00 PM" :> "378"
         @@ "12:00 PM - 01:00 PM" :> "385"
         @@ "01:00 PM - 02:00 PM" :> "392"
         @@ "02:00 PM - 03:00 PM" :> "399"
         @@ "03:00 PM - 04:00 PM" :> "406"
         @@ "04:00 PM - 05:00 PM" :> "413"
         @@ "05:00 PM - 06:00 PM" :> "1147"
         @@ "06:00 PM - 07:00 PM" :> "420")

\* The dates handed to the resolver are days 0..MaxDate, counted from Thursday
\* 1 January 1970.
MaxDate == 7

\* getDayOfWeekName(date)
getDayOfWeekName(date) ==
  <<"Sunday", "Monday", "Tuesday", "Wednesday", "Thursday", "Friday", "Saturday">>[getDay(date) + 1]

\* Property names every object inherits from Object.prototype.
InheritedNames == {"constructor", "toString", "valueOf", "hasOwnProperty", "__proto__"}

Undefined == "undefined"

\* obj[key] on a plain object: the own property, else the inherited one, else
\* undefined.
GetProperty(obj, key) ==
  IF key \in DOMAIN obj THEN obj[key]
  ELSE IF key \in InheritedNames THEN "Object.prototype." \o key
  ELSE Undefined

\* const mapping = courtId === "5" ? COURT1_SCHEDULE_IDS : COURT2_SCHEDULE_IDS
MappingFor(courtId) == IF courtId = "5" THEN COURT1_SCHEDULE_IDS ELSE COURT2_SCHEDULE_IDS

\* resolveScheduleId(courtId, targetDate, timeSlot): the id, or the error with
\* the keys of the day's table.
resolveScheduleId(courtId, date, timeSlot) ==
  LET dayName == getDayOfWeekName(date)
      mapping == MappingFor(courtId)
      scheduleId == GetProperty(mapping[dayName], timeSlot)
  IN IF scheduleId = Undefined
       THEN [raised |-> "No schedule ID found", id |-> Undefined,
             available |-> DOMAIN mapping[dayName]]
       ELSE [raised |-> "", id |-> scheduleId, available |-> {}]

\* The time windows asked for: the thirteen of the table, one outside the
\* opening hours, a start time alone, and the name of an inherited property.
TableWindows == DOMAIN COURT1_SCHEDULE_IDS["Monday"]
AskedWindows == TableWindows \cup {"05:00 AM - 06:00 AM", "06:00 AM", "constructor"}

SchIdle == resolved = <<>>

SchInit == resolved = <<>>

ResolveOne ==
  /\ Len(resolved) < 2
  /\ \E courtId \in {"5", "7"}, date \in 0..MaxDate, timeSlot \in AskedWindows :
       resolved' = Append(resolved,
         [courtId |-> courtId, date |-> date, timeSlot |-> timeSlot,
          result |-> resolveScheduleId(courtId, date, timeSlot)])

SchNext == ResolveOne /\ UNCHANGED <<clsVars, parVars, pollVars, waitVars, runVars, repVars, selVars, detVars, preVars, hintVars, sessVars>>

\* ---- Claims about the schedule ----

Recorded(r) == r.timeSlot \in DOMAIN MappingFor(r.courtId)[getDayOfWeekName(r.date)]

\* C12: a call for a (resource, day of week, time window) of the table returns
\* exactly the recorded id; a call for any other combination raises the
\* resolution error, which lists all time windows of that resource on that day,
\* and returns no id.
C12_ResolvesOrRaises ==
  \A i \in DOMAIN resolved :
    LET r == resolved[i]
        day == MappingFor(r.courtId)[getDayOfWeekName(r.date)]
    IN IF Recorded(r)
         THEN r.result.raised = "" /\ r.result.id = day[r.timeSlot]
         ELSE /\ r.result.raised # ""
              /\ r.result.id = Undefined
              /\ r.result.available = DOMAIN day

\* The half of C12 that holds: recorded combinations, and absent ones whose
\* time window is not the name of an inherited property.
C12_ExceptInherited ==
  \A i \in DOMAIN resolved :
    LET r == resolved[i]
        day == MappingFor(r.courtId)[getDayOfWeekName(r.date)]
    IN IF Recorded(r)
         THEN r.result.raised = "" /\ r.result.id = day[r.timeSlot]
         ELSE r.timeSlot \notin InheritedNames =>
                /\ r.result.raised # ""
                /\ r.result.id = Undefined
                /\ r.result.available = DOMAIN day

\* The call that shows C12 failing: an absent time window for which a value
\* that is no id was returned.
C12_ReturnedForAbsent ==
  \E i \in DOMAIN resolved :
    ~Recorded(resolved[i]) /\ resolved[i].result.raised = ""

SameTriple(r, s) ==
  /\ r.courtId = s.courtId
  /\ getDayOfWeekName(r.date) = getDayOfWeekName(s.date)
  /\ r.timeSlot = s.timeSlot

\* C13: two calls for recorded combinations that returned the same id asked
\* for the same (resource, day of week, time window).
C13_Injective ==
  \A i, j \in DOMAIN resolved :
    (Recorded(resolved[i]) /\ Recorded(resolved[j])
       /\ resolved[i].result.id = resolved[j].result.id) =>
      SameTriple(resolved[i], resolved[j])

\* The same time window was resolved for the two resources on the same day of
\* the week, and the ids differ.
C13_Witness ==
  /\ Len(resolved) = 2
  /\ Recorded(resolved[1]) /\ Recorded(resolved[2])
  /\ resolved[1].courtId # resolved[2].courtId
  /\ resolved[1].timeSlot = resolved[2].timeSlot
  /\ getDayOfWeekName(resolved[1].date) = getDayOfWeekName(resolved[2].date)
  /\ resolved[1].result.id # resolved[2].result.id

\* ------------------------------------------------------------------------
\* selectTimeSlot on the reservation form
\* ------------------------------------------------------------------------

WindowCount == 4

\* The time windows of a day in the order of the form.
WindowNames ==
  <<"06:00 AM - 07:00 AM",
    "07:00 AM - 08:00 AM",
    "08:00 AM - 09:00 AM",
    "09:00 AM - 10:00 AM",
    "10:00 AM - 11:00 AM",
    "11:00 AM - 12:00 PM",
    "12:00 PM - 01:00 PM",
    "01:00 PM - 02:00 PM",
    "02:00 PM - 03:00 PM",
    "03:00 PM - 04:00 PM",
    "04:00 PM - 05:00 PM",
    "05:00 PM - 06:00 PM",
    "06:00 PM - 07:00 PM">>

\* The same time windows character by character.
WindowChars ==
  <<<<"0", "6", ":", "0", "0", " ", "A", "M", " ", "-", " ", "0", "7", ":", "0", "0", " ", "A", "M">>,
    <<"0", "7", ":", "0", "0", " ", "A", "M", " ", "-", " ", "0", "8", ":", "0", "0", " ", "A", "M">>,
    <<"0", "8", ":", "0", "0", " ", "A", "M", " ", "-", " ", "0", "9", ":", "0", "0", " ", "A", "M">>,
    <<"0", "9", ":", "0", "0", " ", "A", "M", " ", "-", " ", "1", "0", ":", "0", "0", " ", "A", "M">>,
    <<"1", "0", ":", "0", "0", " ", "A", "M", " ", "-", " ", "1", "1", ":", "0", "0", " ", "A", "M">>,
    <<"1", "1", ":", "0", "0", " ", "A", "M", " ", "-", " ", "1", "2", ":", "0", "0", " ", "P", "M">>,
    <<"1", "2", ":", "0", "0", " ", "P", "M", " ", "-", " ", "0", "1", ":", "0", "0", " ", "P", "M">>,
    <<"0", "1", ":", "0", "0", " ", "P", "M", " ", "-", " ", "0", "2", ":", "0", "0", " ", "P", "M">>,
    <<"0", "2", ":", "0", "0", " ", "P", "M", " ", "-", " ", "0", "3", ":", "0", "0", " ", "P", "M">>,
    <<"0", "3", ":", "0", "0", " ", "P", "M", " ", "-", " ", "0", "4", ":", "0", "0", " ", "P", "M">>,
    <<"0", "4", ":", "0", "0", " ", "P", "M", " ", "-", " ", "0", "5", ":", "0", "0", " ", "P", "M">>,
    <<"0", "5", ":", "0", "0", " ", "P", "M", " ", "-", " ", "0", "6", ":", "0", "0", " ", "P", "M">>,
    <<"0", "6", ":", "0", "0", " ", "P", "M", " ", "-", " ", "0", "7", ":", "0", "0", " ", "P", "M">>>>

\* TIME_SLOT_VALUES
TIME_SLOT_VALUES ==
  ("06:00 AM - 07:00 AM" :> "243") @@
  ("07:00 AM - 08:00 AM" :> "250") @@
  ("08:00 AM - 09:00 AM" :> "257") @@
  ("09:00 AM - 10:00 AM" :> "264") @@
  ("10:00 AM - 11:00 AM" :> "271") @@
  ("11:00 AM - 12:00 PM" :> "278") @@
  ("12:00 PM - 01:00 PM" :> "285") @@
  ("01:00 PM - 02:00 PM" :> "292") @@
  ("02:00 PM - 03:00 PM" :> "299") @@
  ("03:00 PM - 04:00 PM" :> "306") @@
  ("04:00 PM - 05:00 PM" :> "313") @@
  ("05:00 PM - 06:00 PM" :> "320") @@
  ("06:00 PM - 07:00 PM" :> "327")

\* String.prototype.indexOf: the first place of search in text, 0 if none.
indexOf(text, search) ==
  LET places == {i \in 1..(Len(text) - Len(search) + 1) :
                   SubSeq(text, i, i + Len(search) - 1) = search}
  IN IF places = {} THEN 0 ELSE CHOOSE i \in places : \A j \in places : i <= j

\* String.prototype.includes
includes(text, search) == indexOf(text, search) # 0

\* text.split(separator)[0]
splitHead(text, separator) ==
  IF indexOf(text, separator) = 0 THEN text
  ELSE SubSeq(text, 1, indexOf(text, separator) - 1)

\* What follows the first separator in text.
splitRest(text, separator) ==
  SubSeq(text, indexOf(text, separator) + Len(separator), Len(text))

Dash == <<" ", "-", " ">>

\* The display text of a window's option: "De 06:00 AM a 07:00 AM".
DisplayText(chars) ==
  <<"D", "e", " ">> \o splitHead(chars, Dash) \o <<" ", "a", " ">> \o splitRest(chars, Dash)

DayNames == {"Sunday", "Monday", "Tuesday", "Wednesday", "Thursday", "Friday", "Saturday"}

\* The windows the forms of the model are made of: the first ones of the day
\* and the last one.
FormWindows == (1..(WindowCount - 1)) \cup {Len(WindowNames)}

\* The first option of every form: value "" and text "-".
Placeholder == [value |-> "", text |-> <<"-">>, window |-> 0]

\* The option of window w in the form of a court on a day of the week.
OptionOf(courtId, dayName, w) ==
  [value |-> MappingFor(courtId)[dayName][WindowNames[w]],
   text |-> DisplayText(WindowChars[w]),
   window |-> w]

\* The form of a court on a day in which the windows of present are offered.
FormOf(courtId, dayName, present) ==
  LET offered == SelectSeq([w \in 1..Len(WindowNames) |-> w], LAMBDA w : w \in present)
  IN <<Placeholder>> \o [i \in 1..Len(offered) |-> OptionOf(courtId, dayName, offered[i])]

\* Array.prototype.find by value: the place of the first such option, 0 if none.
FindValue(options, value) ==
  LET places == {i \in 1..Len(options) : options[i].value = value}
  IN IF places = {} THEN 0 ELSE CHOOSE i \in places : \A j \in places : i <= j

\* Array.prototype.find by text: the place of the first option whose text
\* includes the search text, 0 if none.
FindText(options, search) ==
  LET places == {i \in 1..Len(options) : includes(options[i].text, search)}
  IN IF places = {} THEN 0 ELSE CHOOSE i \in places : \A j \in places : i <= j

NotSelected == [done |-> FALSE, success |-> FALSE, selectedValue |-> "", selected |-> 0, by |-> ""]

\* selectTimeSlot: by the recorded id if the form has an option of that
\* value, else by the text of the start time; select.value = v leaves the
\* first option of value v selected.
selectTimeSlot(options, w) ==
  LET slotValue == GetProperty(TIME_SLOT_VALUES, WindowNames[w])
      valueExists == slotValue # Undefined /\ FindValue(options, slotValue) # 0
      start == splitHead(WindowChars[w], Dash)
      option == FindText(options, start)
  IN IF valueExists
       THEN [done |-> TRUE, success |-> TRUE, selectedValue |-> slotValue,
             selected |-> FindValue(options, slotValue), by |-> "value"]
     ELSE IF option # 0
       THEN [done |-> TRUE, success |-> TRUE, selectedValue |-> options[option].value,
             selected |-> FindValue(options, options[option].value), by |-> "text"]
     ELSE [done |-> TRUE, success |-> FALSE, selectedValue |-> "", selected |-> 0, by |-> "text"]

SelIdle ==
  /\ form = <<>>
  /\ requested = 0
  /\ selection = NotSelected
  /\ formCourtId = ""
  /\ formDayName = ""

SelInit ==
  /\ \E courtId \in {"5", "7"}, dayName \in DayNames, present \in SUBSET FormWindows :
       /\ form = FormOf(courtId, dayName, present)
       /\ formCourtId = courtId
       /\ formDayName = dayName
  /\ requested \in FormWindows
  /\ selection = NotSelected

SelectSlot ==
  /\ ~selection.done
  /\ selection' = selectTimeSlot(form, requested)
  /\ UNCHANGED <<form, requested, formCourtId, formDayName>>

SelNext == SelectSlot /\ UNCHANGED <<clsVars, parVars, pollVars, waitVars, runVars, repVars, schVars, detVars, preVars, hintVars, sessVars>>

\* ---- Claims about the slot selection ----

SelectedWindow == form[selection.selected].window

\* C18 as stated: for every form, whenever selectTimeSlot reports a selection,
\* by the id or by the start-time text, the option left selected is the
\* option of the requested time window and never one of another window.
C18_SelectsRequestedWindow ==
  (selection.done /\ selection.success) => SelectedWindow = requested

\* The selection by id alone does leave the requested window selected.
C18_ByIdSelectsRequested ==
  (selection.done /\ selection.success /\ selection.by = "value") =>
    SelectedWindow = requested

\* The requested window is offered, the fallback ran, and the window before
\* it, whose text ends with the requested start time, is left selected.
C18_FallbackSelectsEarlier ==
  /\ selection.done /\ selection.success /\ selection.by = "text"
  /\ \E i \in 1..Len(form) : form[i].window = requested
  /\ SelectedWindow = requested - 1

\* const slotValue = TIME_SLOT_VALUES[timeSlot]: the id selectTimeSlot tries
\* first for the requested window.
PrimaryId == GetProperty(TIME_SLOT_VALUES, WindowNames[requested])

\* The id resolveScheduleId gives for the attempt's court, the day of the week
\* of its target date and the requested window.
ResolverId ==
  LET date == CHOOSE d \in 0..6 : getDayOfWeekName(d) = formDayName
  IN resolveScheduleId(formCourtId, date, WindowNames[requested]).id

\* C30 as stated: the id selectTimeSlot tries on its primary path equals the
\* id the schedule resolver records for the attempt's court, day of the week
\* and time window (and so differs between attempts of the same window for
\* another court or another day).
C30_PrimaryIdIsResolverId ==
  selection.done => PrimaryId = ResolverId

\* What the code does instead: the id tried is the one the resolver records
\* for Court 1 on a Friday, whatever the attempt's court and day.
C30_PrimaryIdIsCourt1Friday ==
  selection.done =>
    PrimaryId = GetProperty(COURT1_SCHEDULE_IDS["Friday"], WindowNames[requested])

\* An attempt for Court 2 on a Monday: the id tried is not the resolver's, the
\* form has the resolver's id, and the selection fell back to the text.
C30_OtherIdTried ==
  /\ selection.done
  /\ formCourtId = "7" /\ formDayName = "Monday"
  /\ PrimaryId # ResolverId
  /\ FindValue(form, ResolverId) # 0
  /\ selection.by = "text"

\* ------------------------------------------------------------------------
\* detectError on the text of the result frame, next to classifyMessage
\* ------------------------------------------------------------------------

\* What detectError returns: type, message, days and rawMessage.
Detected(type, text, days, raw) ==
  [type |-> type, message |-> text, days |-> days, rawMessage |-> raw]

\* detectError after the extraction of messageToCheck: the same normalisation
\* and patterns as the classifier, the success rule tried last.
detectError(messageToCheck) ==
  IF messageToCheck = <<>>
    THEN Detected("UNKNOWN", <<"No response content found">>, JsUndefined, <<>>)
  ELSE LET msg == normalizeMessage(messageToCheck) IN
    IF IsNotYetAvailable(msg)
      THEN Detected("NOT_YET_AVAILABLE", <<"Not available yet">>, DaysMatch(msg),
                    messageToCheck)
    ELSE IF Test(SlotTakenPattern, msg)
      THEN Detected("SLOT_TAKEN",
                    <<"Time slot already taken - someone else reserved it first">>,
                    JsUndefined, messageToCheck)
    ELSE IF Test(LimitPattern, msg)
      THEN Detected("RESERVATION_LIMIT",
                    <<"Reservation limit exceeded - you have already used your allowed reservations">>,
                    JsUndefined, messageToCheck)
    ELSE IF Test(SuccessPattern, msg)
      THEN Detected("SUCCESS", <<"Reservation successful">>, JsUndefined, messageToCheck)
    ELSE Detected("UNKNOWN", <<"Could not classify response">>, JsUndefined,
                  messageToCheck)

\* The texts extracted from the result frame: nothing, or phrases of the
\* remote system's messages in each writing style.
ExtractedTexts ==
  {<<>>} \cup {Render(ids, style) : ids \in FragmentSeqs, style \in Styles}

NoVerdicts == [done |-> FALSE, detect |-> Detected("", <<>>, JsUndefined, <<>>),
               classify |-> NotCalled]

DetIdle == extracted = <<>> /\ verdicts = NoVerdicts

DetInit == extracted \in ExtractedTexts /\ verdicts = NoVerdicts

\* Both are run on the same text.
DetectAndClassify ==
  /\ ~verdicts.done
  /\ verdicts' = [done |-> TRUE, detect |-> detectError(extracted),
                  classify |-> classifyMessage(JsString(extracted))]
  /\ UNCHANGED extracted

DetNext ==
  DetectAndClassify /\ UNCHANGED <<clsVars, parVars, pollVars, waitVars, runVars, repVars, schVars, selVars, preVars, hintVars, sessVars>>

\* ---- Claims about the two classifications ----

\* C26 as stated: for every extracted text, the texts of several rules
\* included, detectError and classifyMessage give the same status and the
\* same days hint.
C26_DetectAgreesWithClassify ==
  verdicts.done =>
    /\ verdicts.detect.type = verdicts.classify.type
    /\ verdicts.detect.days = verdicts.classify.days

\* The part that holds: they agree on every text in which the success rule
\* does not meet another rule.
C26_AgreeOffSuccess ==
  (verdicts.done /\ ~(verdicts.classify.type = "SUCCESS" /\ verdicts.detect.type # "SUCCESS")) =>
    /\ verdicts.detect.type = verdicts.classify.type
    /\ verdicts.detect.days = verdicts.classify.days

\* A text with the words of a success and of a taken slot: SUCCESS for the
\* classifier, SLOT_TAKEN for detectError.
C26_SuccessAgainstSlotTaken ==
  /\ verdicts.done
  /\ verdicts.classify.type = "SUCCESS"
  /\ verdicts.detect.type = "SLOT_TAKEN"

\* ------------------------------------------------------------------------
\* The pre-login timing of main: waitUntilPreMidnightWindow
\* ------------------------------------------------------------------------

\* The run reaches the pre-login timing at most MaxStartLead seconds before the
\* unlock instant, and is followed for MaxOvershoot seconds after it.
MaxStartLead == 32

\* Math.min(remainingMs - offsetMs, 30000), in seconds
SleepCapSeconds == 30

\* The values LOGIN_LEAD_MS is given: none, a second, or the default.
LeadTimes == {0, 1, LoginLeadSeconds}

\* The unlock instant: the midnight that ends the first day, in ticks.
UnlockTick == DayLength * TicksPerSecond

\* msUntilNextCRMidnight() at a tick, in seconds: nowInCR() has whole seconds.
RemainingAt(tick) == msUntilNextCRMidnight(nowInCR(tick))

\* if (remainingMs <= offsetMs) return;
WindowReached(remainingMs, offsetMs) == remainingMs <= offsetMs

\* const waitMs = Math.min(remainingMs - offsetMs, 30000);
waitMs(remainingMs, offsetMs) ==
  IF remainingMs - offsetMs < SleepCapSeconds
    THEN remainingMs - offsetMs
    ELSE SleepCapSeconds

PreIdle ==
  /\ prePc = "idle"
  /\ preClock = 0
  /\ loginLeadMs = 0
  /\ preWake = 0
  /\ preStart = 0
  /\ loginStart = -1

\* Production mode: main has launched the browser and reads LOGIN_LEAD_MS.
PreInit ==
  /\ prePc = "main"
  /\ preClock \in (UnlockTick - MaxStartLead * TicksPerSecond)..(UnlockTick - 1)
  /\ loginLeadMs \in LeadTimes
  /\ preWake = 0
  /\ preStart = preClock
  /\ loginStart = -1

\* if (msUntilNextCRMidnight() > loginLeadMs) await waitUntilPreMidnightWindow(loginLeadMs);
\* otherwise the login starts.
PreLoginTiming ==
  /\ prePc = "main"
  /\ IF RemainingAt(preClock) > loginLeadMs
       THEN prePc' = "loop" /\ UNCHANGED loginStart
       ELSE prePc' = "login" /\ loginStart' = preClock
  /\ UNCHANGED <<preClock, loginLeadMs, preWake, preStart>>

\* One iteration of waitUntilPreMidnightWindow: return, and the login starts,
\* or set the timer.
PreWindowIterate ==
  /\ prePc = "loop"
  /\ LET remainingMs == RemainingAt(preClock) IN
       IF WindowReached(remainingMs, loginLeadMs)
         THEN /\ prePc' = "login"
              /\ loginStart' = preClock
              /\ UNCHANGED preWake
         ELSE /\ prePc' = "sleep"
              /\ preWake' = preClock + waitMs(remainingMs, loginLeadMs) * TicksPerSecond
              /\ UNCHANGED loginStart
  /\ UNCHANGED <<preClock, loginLeadMs, preStart>>

\* The timer fires, no earlier than it is due.
PreTimerFires ==
  /\ prePc = "sleep"
  /\ preClock >= preWake
  /\ prePc' = "loop"
  /\ UNCHANGED <<preClock, loginLeadMs, preWake, preStart, loginStart>>

\* Time passes while the timer is pending; it fires up to MaxLate ticks late.
PreTick ==
  /\ prePc = "sleep"
  /\ preClock < preWake + MaxLate
  /\ preClock < UnlockTick + MaxOvershoot * TicksPerSecond
  /\ preClock' = preClock + 1
  /\ UNCHANGED <<prePc, loginLeadMs, preWake, preStart, loginStart>>

PreNext ==
  /\ \/ PreLoginTiming
     \/ PreWindowIterate
     \/ PreTimerFires
     \/ PreTick
  /\ UNCHANGED <<clsVars, parVars, pollVars, waitVars, runVars, repVars, schVars, selVars, detVars, hintVars, sessVars>>

\* ---- Claims about the pre-login timing ----

\* The run reached the pre-login timing with more than the lead time left.
StartedEarly == UnlockTick - preStart > loginLeadMs * TicksPerSecond

\* C31 as stated: authentication starts only when the time left until the
\* unlock instant is at most the configured lead time, and a run started
\* earlier than that starts it before the unlock instant: the pre-login wait
\* never returns while more than the lead time is left and never sleeps past
\* the unlock instant.
C31_LoginWithinLead ==
  /\ prePc = "login" =>
       /\ loginStart <= UnlockTick
       /\ UnlockTick - loginStart <= loginLeadMs * TicksPerSecond
  /\ prePc \in {"loop", "sleep"} => preClock < UnlockTick

\* The first half alone: the wait never returns, and the login never starts,
\* while more than the lead time is left.
C31_NeverBeforeTheWindow ==
  prePc = "login" =>
    RemainingAt(loginStart) <= loginLeadMs /\ loginStart >= preStart

\* With a lead time of two seconds or more the timer's lateness and the whole
\* seconds of the clock are covered: the login starts within the lead time
\* before the unlock instant.
C31_AmpleLeadHolds ==
  loginLeadMs >= 2 =>
    /\ prePc = "login" =>
         /\ loginStart <= UnlockTick
         /\ UnlockTick - loginStart <= loginLeadMs * TicksPerSecond
    /\ prePc \in {"loop", "sleep"} => preClock < UnlockTick

\* A run started early with no lead time: the wait slept up to the unlock
\* instant, found a whole day left and sleeps on.
C31_SleptPastUnlock ==
  /\ StartedEarly
  /\ prePc = "sleep"
  /\ preClock > UnlockTick
  /\ loginStart = -1

\* ------------------------------------------------------------------------
\* classifyMessage on not-yet-available texts with and without a days phrase
\* ------------------------------------------------------------------------

\* The texts: a not-yet-available sentence, then a phrase made of a number, a
\* gap, a word for days, a blank and a closing word, then perhaps a second
\* phrase that is well formed.
HintLead ==
  <<"n", "o", " ", "e", "s", "t", "a'", " ", "d", "i", "s", "p", "o", "n", "i", "b", "l", "e">>
HintNumbers == {<<>>, <<"8">>, <<"1", "8">>, <<"u", "n">>}
HintGaps == {<<>>, <<" ">>, <<"\n", " ">>}
HintDayWords == {<<"d", "i", "a">>, <<"D", "I'", "A", "S">>, <<"m", "e", "s">>}
HintClosings == {<<"a", "n", "t", "e", "s">>, <<"p", "r", "e", "v", "i", "o">>,
                 <<"p", "r", "e", "v", "i", "o", "s">>, <<"l", "u", "e", "g", "o">>}
SecondPhrase == <<" ", "3", " ", "d", "i", "a", " ", "a", "n", "t", "e", "s">>

HintInputs ==
  [number : HintNumbers, gap : HintGaps, dayWord : HintDayWords,
   closing : HintClosings, second : BOOLEAN]

\* The characters of the text of an input.
HintText(h) ==
  HintLead \o <<" ">> \o Fragments[4] \o <<" ">> \o
  h.number \o h.gap \o h.dayWord \o <<" ">> \o h.closing \o
  (IF h.second THEN SecondPhrase ELSE <<>>)

NoHintInput ==
  [number |-> <<>>, gap |-> <<>>, dayWord |-> <<>>, closing |-> <<>>, second |-> FALSE]

HintIdle == hintInput = NoHintInput /\ hintResult = NotCalled

HintInit == hintInput \in HintInputs /\ hintResult = NotCalled

\* const classified = classifyMessage(result.message)
ClassifyHint ==
  /\ hintResult = NotCalled
  /\ hintResult' = classifyMessage(JsString(HintText(hintInput)))
  /\ UNCHANGED hintInput

HintNext ==
  ClassifyHint /\ UNCHANGED <<clsVars, parVars, pollVars, waitVars, runVars, repVars, schVars, selVars, detVars, preVars, sessVars>>

\* ---- Claims about the days hint ----

\* The first phrase of the input is a days phrase: digits, white space, "dia"
\* or "dias" with or without the accent, white space, "antes" or "previo(s)".
HasDaysPhrase(h) ==
  /\ h.number # <<>> /\ \A i \in DOMAIN h.number : h.number[i] \in Digits
  /\ h.gap # <<>>
  /\ h.dayWord \in {<<"d", "i", "a">>, <<"D", "I'", "A", "S">>}
  /\ h.closing \in {<<"a", "n", "t", "e", "s">>, <<"p", "r", "e", "v", "i", "o">>,
                    <<"p", "r", "e", "v", "i", "o", "s">>}

\* The number before the first days phrase of the input, if it has one.
ExpectedDays(h) ==
  IF HasDaysPhrase(h) THEN JsString(h.number)
  ELSE IF h.second THEN JsString(<<"3">>)
  ELSE JsUndefined

\* C34: every text of the inputs is classified NOT_YET_AVAILABLE, with the
\* original text; its days hint is the whole number that stands, separated by
\* white space, before the first "dia(s) antes / previo(s)" of the text, and is
\* absent when the text has no such phrase.
C34_DaysHintIsTheNumber ==
  hintResult # NotCalled =>
    /\ hintResult.raised = ""
    /\ hintResult.type = "NOT_YET_AVAILABLE"
    /\ hintResult.rawMessage = HintText(hintInput)
    /\ hintResult.days = ExpectedDays(hintInput)

\* A text with "18 DI'AS antes" and a second phrase: the hint is 18.
C34_TwoDigitHint ==
  /\ hintResult # NotCalled
  /\ hintInput.second
  /\ hintInput.number = <<"1", "8">>
  /\ hintInput.dayWord = <<"D", "I'", "A", "S">>
  /\ hintResult.days = JsString(<<"1", "8">>)

\* A text without a days phrase: classified NOT_YET_AVAILABLE without a hint.
C34_NoPhraseNoHint ==
  /\ hintResult # NotCalled
  /\ ~hintInput.second /\ ~HasDaysPhrase(hintInput)
  /\ hintResult.type = "NOT_YET_AVAILABLE"
  /\ hintResult.days = JsUndefined

\* ------------------------------------------------------------------------
\* The session state tracker: createSessionState and recordFallback (engine.ts)
\* ------------------------------------------------------------------------

MaxRecorded == 3

SessionModes == {"single", "contexts"}
FallbackReasons == {"LOGIN_REDIRECT", "AUTH_ERROR", "CSRF_ERROR"}
CourtNames == {"Cancha de Tenis 1", "Cancha de Tenis 2"}

SessIdle ==
  /\ tracked = createSessionState("single")
  /\ givenMode = ""
  /\ recorded = <<>>

\* const sessionState = createSessionState(initialMode)
SessInit ==
  /\ givenMode \in SessionModes
  /\ tracked = createSessionState(givenMode)
  /\ recorded = <<>>

\* recordFallback(sessionState, court, reason)
RecordFallback ==
  /\ Len(recorded) < MaxRecorded
  /\ \E court \in CourtNames, reason \in FallbackReasons :
       /\ tracked' = recordFallback(tracked, court, reason)
       /\ recorded' = Append(recorded, [court |-> court, reason |-> reason])
  /\ UNCHANGED givenMode

SessNext ==
  RecordFallback /\ UNCHANGED <<clsVars, parVars, pollVars, waitVars, runVars, repVars, schVars, selVars, detVars, preVars, hintVars>>

\* ---- Claims about the session state ----

\* C36: after any sequence of recordFallback calls fallbackApplied is true
\* exactly when fallbackEvents is not empty, the events are those of the calls
\* in the order of the calls, each call leaving the earlier events in place
\* and adding its own at the end, and mode keeps the value createSessionState
\* was given.
C36_SessionStateInvariant ==
  /\ [](/\ tracked.fallbackApplied <=> tracked.fallbackEvents # <<>>
        /\ tracked.fallbackEvents = recorded
        /\ tracked.mode = givenMode)
  /\ [][/\ Len(tracked'.fallbackEvents) = Len(tracked.fallbackEvents) + 1
        /\ SubSeq(tracked'.fallbackEvents, 1, Len(tracked.fallbackEvents))
             = tracked.fallbackEvents
        /\ tracked'.mode = tracked.mode]_vars

\* Three calls for the two courts with different reasons on a state created
\* in contexts mode.
C36_ThreeEvents ==
  /\ givenMode = "contexts"
  /\ Len(tracked.fallbackEvents) = 3
  /\ tracked.fallbackEvents[1].court # tracked.fallbackEvents[2].court
  /\ tracked.fallbackEvents[1].reason # tracked.fallbackEvents[3].reason
  /\ tracked.fallbackApplied

InitSchedule == SchInit /\ ClsIdle /\ ParIdle /\ PollIdle /\ WaitIdle /\ RunIdle /\ RepIdle /\ SelIdle /\ DetIdle /\ PreIdle /\ HintIdle /\ SessIdle

SpecSchedule == InitSchedule /\ [][SchNext]_vars

InitRepeat == RepInit /\ ClsIdle /\ ParIdle /\ PollIdle /\ WaitIdle /\ RunIdle /\ SchIdle /\ SelIdle /\ DetIdle /\ PreIdle /\ HintIdle /\ SessIdle

SpecRepeat == InitRepeat /\ [][RepNext]_vars

InitRun == RunInit /\ ClsIdle /\ ParIdle /\ PollIdle /\ WaitIdle /\ RepIdle /\ SchIdle /\ SelIdle /\ DetIdle /\ PreIdle /\ HintIdle /\ SessIdle

SpecRun == InitRun /\ [][RunNext]_vars

InitWait == WaitInit /\ ClsIdle /\ ParIdle /\ PollIdle /\ RunIdle /\ RepIdle /\ SchIdle /\ SelIdle /\ DetIdle /\ PreIdle /\ HintIdle /\ SessIdle

SpecWait == InitWait /\ [][WaitNext]_vars

InitPoll == PollInit /\ ClsIdle /\ ParIdle /\ WaitIdle /\ RunIdle /\ RepIdle /\ SchIdle /\ SelIdle /\ DetIdle /\ PreIdle /\ HintIdle /\ SessIdle

SpecPoll == InitPoll /\ [][PollNext]_vars

\* The event loop runs what is ready: a due timer fires, a lookup answers or
\* rejects, and time passes while either is pending.
PollFairness ==
  LET Rest == UNCHANGED <<clsVars, parVars, waitVars, runVars, repVars, schVars,
                          selVars, detVars, preVars, hintVars, sessVars>> IN
    /\ WF_vars(PollIterate /\ Rest)
    /\ WF_vars((PollLookup \/ PollLookupFails) /\ Rest)
    /\ WF_vars(PollWake /\ Rest)
    /\ WF_vars(PollTick /\ Rest)

SpecPollLive == InitPoll /\ [][PollNext]_vars /\ PollFairness

InitParallel == ParInit /\ ClsIdle /\ PollIdle /\ WaitIdle /\ RunIdle /\ RepIdle /\ SchIdle /\ SelIdle /\ DetIdle /\ PreIdle /\ HintIdle /\ SessIdle

SpecParallel == InitParallel /\ [][ParNext]_vars

InitClassify == ClsInit /\ ParIdle /\ PollIdle /\ WaitIdle /\ RunIdle /\ RepIdle /\ SchIdle /\ SelIdle /\ DetIdle /\ PreIdle /\ HintIdle /\ SessIdle

SpecClassify == InitClassify /\ [][ClsNext]_vars

InitSelect == SelInit /\ ClsIdle /\ ParIdle /\ PollIdle /\ WaitIdle /\ RunIdle /\ RepIdle /\ SchIdle /\ DetIdle /\ PreIdle /\ HintIdle /\ SessIdle

SpecSelect == InitSelect /\ [][SelNext]_vars

InitDetect == DetInit /\ ClsIdle /\ ParIdle /\ PollIdle /\ WaitIdle /\ RunIdle /\ RepIdle /\ SchIdle /\ SelIdle /\ PreIdle /\ HintIdle /\ SessIdle

SpecDetect == InitDetect /\ [][DetNext]_vars
InitPreLogin == PreInit /\ ClsIdle /\ ParIdle /\ PollIdle /\ WaitIdle /\ RunIdle /\ RepIdle /\ SchIdle /\ SelIdle /\ DetIdle /\ HintIdle /\ SessIdle

SpecPreLogin == InitPreLogin /\ [][PreNext]_vars
InitHint == HintInit /\ ClsIdle /\ ParIdle /\ PollIdle /\ WaitIdle /\ RunIdle /\ RepIdle /\ SchIdle /\ SelIdle /\ DetIdle /\ PreIdle /\ SessIdle

SpecHint == InitHint /\ [][HintNext]_vars
InitSession == SessInit /\ ClsIdle /\ ParIdle /\ PollIdle /\ WaitIdle /\ RunIdle /\ RepIdle /\ SchIdle /\ SelIdle /\ DetIdle /\ PreIdle /\ HintIdle

SpecSession == InitSession /\ [][SessNext]_vars
====
